---- MODULE Spec2Model ----
(***************************************************************************)
(* OnyxIRC server: the connection engine (server.go, client.go,            *)
(* handlers.go, handlers_complete.go, admin_handlers.go), the session      *)
(* manager (security/session.go), the IP tracking service                  *)
(* (security/ip_tracking.go) and the repositories they call, as one state  *)
(* machine.  Every goroutine of the server is a process of the model: one  *)
(* handler per connection, the detached Disconnect goroutines started by   *)
(* kick and ban, the session sweeper and Shutdown.  A store call is one    *)
(* atomic step; a handler that makes several store calls is several steps  *)
(* where another goroutine can observe the difference.                     *)
(***************************************************************************)
EXTENDS Integers, Sequences, FiniteSets, TLC

(* ------------------------------------------------------------------ *)
(* Universe of the model                                               *)
(* ------------------------------------------------------------------ *)
Conns == {"c1", "c2", "c3"}
\* the slots of the specifications with two connections
Peers == {"c1", "c2"}
Names == {"alice", "eve"}
Addrs == {"ip1", "ip2"}
Rooms == {"#r"}
Passwords == {"p1", "p2"}

\* calls of Client.Send on one connection
MaxLines == 3

\* the goroutines that write to one connection: its handler, a fan-out of
\* another handler, the Shutdown call
Senders == {"handler", "fanout", "shutdown"}
NoUser == "none"
NoIP == "nil"

\* security.max_ip_suspicion
MaxIPSuspicion == 3
\* cap on the suspicion counter explored by the model
MaxCount == 5
\* session ids the model draws from (generateSessionID is random 256 bit)
MaxSid == 3
\* lines one Read of a transport brings at most
MaxBuffered == 2
\* goroutines the worker pool creates at most in a run of the model
MaxGoroutines == 4
\* jobs handed to Submit at most in a run of the model
MaxJobs == 7

\* threadpool.NewWorkerPool(workers, queueSize, maxWorkers, workerTimeout)
workers == 2
maxWorkers == 3
queueSize == 3

Sids == 1..MaxSid

VARIABLES
    enableTracking, \* config.Security.EnableIPTracking
    users,          \* table users: name -> row
    sec,            \* table user_security_status: name -> row
    chans,          \* table channels: set of room names
    members,        \* table channel_members: room -> name -> role
    bans,           \* table user_bans: names with an active ban row
    sessions,       \* SessionManager.sessions: sid -> session
    userSessions,   \* SessionManager.userSessions: name -> sequence of sid
    clients,        \* Server.clients: sid -> connection
    clientsMu,      \* Server.clientsMu: "free" or "shutdown" (write-held)
    shut,           \* the Shutdown call: its position and what is left to visit
    cst,            \* connection slot: "none" or "open" (handler goroutine alive)
    addr,           \* Client.conn.RemoteAddr
    authenticated,  \* Client.authenticated
    cuser,          \* Client.user
    SessionID,      \* Client.SessionID (0 is the empty string)
    channels,       \* Client.channels
    once,           \* Client.once: "new", "running", "done"
    onceBy,         \* the goroutine inside once.Do
    asyncDisc,      \* connections with a "go client.Disconnect()" not yet run
    pc,             \* position of the handler goroutine
    lcl,            \* locals of the handler in flight
    rbuf,           \* lines the bufio.Scanner of a handler holds and has not returned
    reply,          \* the command a handler completed in this step and its error
    wire,           \* the lines this step wrote to each transport, in order
    audit,          \* the rows this step inserted into admin_action_log
    logNull,        \* admin_action_log holds a row whose action_details is NULL
    proc,           \* the server process: "up", or "panicked" and gone
    started,        \* WorkerPool.Start has run
    activeWorkers,  \* WorkerPool.activeWorkers
    wk,             \* position of each worker goroutine, "none" before it exists
    spawned,        \* goroutines startWorker has created
    jobQueue,       \* WorkerPool.jobQueue: the buffered jobs, oldest first
    accepted,       \* jobs handed to Submit so far
    caller,         \* position and job of each goroutine calling Submit
    ret,            \* the call of Submit that returned in this step and its error
    ctxDone,        \* WorkerPool.ctx is cancelled
    closed,         \* WorkerPool.jobQueue is closed
    sd,             \* position of the call of WorkerPool.Shutdown
    writerMu,       \* Client.writerMu of one connection: "free" or the goroutine holding it
    writer,         \* Client.writer: the bytes bufio holds and its sticky error
    peer,           \* the bytes the other end of that connection has received
    snd,            \* position and line of each goroutine calling Client.Send
    calls,          \* for each call of Send, in call order: the calls that had returned
    returned,       \* the calls of Send that have returned
    executed        \* the jobs whose Task a worker has called (0: the zero Job)

storeVars == <<users, sec, chans, members, bans>>
regVars == <<sessions, userSessions>>
srvVars == <<clients, clientsMu, shut>>
connVars == <<cst, addr, authenticated, cuser, SessionID, channels, once, onceBy,
              asyncDisc, pc, lcl>>
downVars == <<ctxDone, closed, sd>>
poolVars == <<started, activeWorkers, wk, spawned, jobQueue, accepted, caller, ret, downVars,
              executed>>
engineVars == <<enableTracking, users, sec, chans, members, bans, sessions, userSessions,
                clients, clientsMu, shut, cst, addr, authenticated, cuser, SessionID,
                channels, once, onceBy, asyncDisc, pc, lcl, rbuf, reply, wire, audit,
                logNull, proc>>
sendVars == <<writerMu, writer, peer, snd, calls, returned>>
vars == <<engineVars, poolVars, sendVars>>

(* ------------------------------------------------------------------ *)
(* Error texts, as the words of the Go format strings                  *)
(* ------------------------------------------------------------------ *)
NoErr == <<>>
ErrNotAuthenticated == <<"not", "authenticated">>
\* the default case returning nil
UnknownCommandIgnored == NoErr

ErrUnknownCommand == <<"unknown", "command">>
ErrUsage(cmd) == <<"usage:", cmd>>
ErrUnknownAdmin == <<"unknown", "admin", "command">>
ErrInvalidCredentials == <<"invalid", "username", "or", "password">>
ErrInactive == <<"account", "is", "inactive">>
ErrUsernameExists == <<"registration", "failed", ":", "username", "already", "exists">>
ErrCreateUser == <<"registration", "failed", ":", "failed", "to", "create", "user">>
ErrCreateChannel == <<"failed", "to", "create", "channel">>
ErrAddOwner == <<"failed", "to", "create", "channel", ":", "failed", "to", "add",
                 "creator", "as", "owner">>
ErrPermission == <<"permission", "denied", ":", "admin", "privileges", "required">>
ErrUserNotFound == <<"user", "not", "found">>
ErrCannotTargetAdmin(sub) == <<"cannot", sub, "admin", "users">>
ErrChannelNotFound == <<"channel", "not", "found">>
ErrNotInChannel == <<"you", "are", "not", "in", "channel">>
ErrNotAMember == <<"cannot", "send", "to", "channel", ":", "not", "a", "member">>
ErrOffline == <<"user", "is", "offline", "(message", "not", "delivered)">>
ErrJoinFailed == <<"failed", "to", "join", "channel">>
ErrLockFired == <<"account", "locked", "due", "to", "suspicious", "activity", ":",
                  "too", "many", "IP", "address", "changes">>

DefaultLockReason == <<"Account", "locked">>

LockReasonText(n) == <<"Too", "many", "IP", "address", "changes", "(", ToString(n), ")">>

ErrAlreadyLocked(reason) == <<"account", "is", "locked", ":">> \o reason

LoginFailed(e) == <<"login", "failed", ":">> \o e

LoginBlocked(e) == <<"login", "blocked", ":">> \o e

\* strings.Contains on the words of a message
Contains(s, phrase) ==
    \E i \in 1..(Len(s) - Len(phrase) + 1) :
        \A j \in 1..Len(phrase) : s[i + j - 1] = phrase[j]

\* client.go Handle: the error that ends the read loop
IsCritical(e) == Contains(e, <<"account", "locked">>)

(* ------------------------------------------------------------------ *)
(* Rows                                                                *)
(* ------------------------------------------------------------------ *)
\* the characters of a password argument of REGISTER and LOGIN
Str(p) == IF p = "p1" THEN <<"a">> ELSE <<"a", "b">>

\* hashing.go GenerateSalt: the values it can return, all of one length
Salts == {<<"a">>, <<"b">>}

\* hashing.go HashSHA256: an injective digest of the data
HashSHA256(data) == <<"sha256">> \o data

\* the digest computed from the salt alone
HashPasswordSaltOnly(password, salt) == HashSHA256(salt)

\* hashing.go HashPassword: the digest of the password followed by the salt
HashPassword(password, salt) == HashSHA256(password \o salt)

\* hashing.go VerifyPassword: recompute the digest and compare
VerifyPassword(password, salt, storedHash) == HashPassword(password, salt) = storedHash

\* the salt of the rows present at start
SeedSalt == <<"a">>

NoRow == [registered |-> FALSE, hash |-> <<>>, salt |-> <<>>, active |-> FALSE,
          admin |-> FALSE, rows |-> 0]

\* user_repository.go Create: the row of a user whose password is p, salted with s
NewUser(p, s, adm) == [registered |-> TRUE, hash |-> HashPassword(Str(p), s), salt |-> s,
                       active |-> TRUE, admin |-> adm, rows |-> 1]

UserRow(p, adm) == NewUser(p, SeedSalt, adm)

\* trigger after_user_insert
FreshSec == [lastKnownIP |-> NoIP, count |-> 0, locked |-> FALSE,
             reason |-> <<>>, lockedAt |-> FALSE, lockedBy |-> NoUser]

\* the row a run with tracking enabled leaves behind when the lock fired
LockedSec == [lastKnownIP |-> "ip1", count |-> MaxIPSuspicion + 1, locked |-> TRUE,
              reason |-> LockReasonText(MaxIPSuspicion + 1), lockedAt |-> TRUE,
              lockedBy |-> NoUser]

NoLocals == [user |-> NoUser, pw |-> "", room |-> "", newCount |-> 0, own |-> 0]

NoReply == [conn |-> "none", cmd |-> "", err |-> NoErr]

NoLines == [k \in Conns |-> <<>>]

Remove(f, k) == [x \in DOMAIN f \ {k} |-> f[x]]

Put(f, k, v) == [x \in DOMAIN f \cup {k} |-> IF x = k THEN v ELSE f[x]]

RemoveFirst(s, x) ==
    IF \E i \in 1..Len(s) : s[i] = x
    THEN LET i == CHOOSE i \in 1..Len(s) : s[i] = x /\ \A j \in 1..(i - 1) : s[j] # x
         IN  SubSeq(s, 1, i - 1) \o SubSeq(s, i + 1, Len(s))
    ELSE s

(* ------------------------------------------------------------------ *)
(* Initial states: New() over a store that holds the operator account  *)
(* eve and, possibly, the account alice registered (and locked) by an  *)
(* earlier run of the server                                           *)
(* ------------------------------------------------------------------ *)
Goroutines == 1..MaxGoroutines
Submitters == {"s1", "s2"}
NoJob == 0
NoRet == [caller |-> "none", job |-> NoJob, err |-> <<>>]

\* pool.go NewWorkerPool: no worker yet, an empty queue
NewWorkerPool ==
    /\ started = FALSE
    /\ activeWorkers = 0
    /\ wk = [w \in Goroutines |-> "none"]
    /\ spawned = 0
    /\ jobQueue = <<>>
    /\ accepted = 0
    /\ caller = [s \in Submitters |-> [pc |-> "idle", job |-> NoJob]]
    /\ ret = NoRet
    /\ ctxDone = FALSE
    /\ closed = FALSE
    /\ sd = "idle"
    /\ executed = {}

\* client.go NewClient: the write side of a connection, nothing sent yet
NewWriter ==
    /\ writerMu = "free"
    /\ writer = [buf |-> <<>>, err |-> FALSE]
    /\ peer = <<>>
    /\ snd = [g \in Senders |-> [pc |-> "idle", line |-> 0, at |-> 0]]
    /\ calls = <<>>
    /\ returned = {}

\* the tables as the schema and an earlier run leave them
InitStore(a) ==
    /\ users = [n \in Names |->
                  IF n = "eve" THEN UserRow("p1", TRUE)
                  ELSE IF a = "absent" THEN NoRow ELSE UserRow("p1", FALSE)]
    /\ sec = [n \in Names |-> IF n = "alice" /\ a = "locked" THEN LockedSec ELSE FreshSec]
    /\ chans = {}
    /\ members = [r \in Rooms |-> [n \in Names |-> "none"]]
    /\ bans = {}
    /\ logNull = (a = "nulllog")

\* server.go New, session.go NewSessionManager: nothing in memory yet
InitMemory ==
    /\ sessions = <<>>
    /\ userSessions = <<>>
    /\ clients = <<>>
    /\ clientsMu = "free"
    /\ shut = [pc |-> "idle", todo |-> {}, cur |-> 0, sent |-> {}]
    /\ cst = [c \in Conns |-> "none"]
    /\ addr = [c \in Conns |-> NoIP]
    /\ authenticated = [c \in Conns |-> FALSE]
    /\ cuser = [c \in Conns |-> NoUser]
    /\ SessionID = [c \in Conns |-> 0]
    /\ channels = [c \in Conns |-> {}]
    /\ once = [c \in Conns |-> "new"]
    /\ onceBy = [c \in Conns |-> "none"]
    /\ asyncDisc = {}
    /\ pc = [c \in Conns |-> "idle"]
    /\ lcl = [c \in Conns |-> NoLocals]
    /\ rbuf = [c \in Conns |-> 0]
    /\ reply = NoReply
    /\ wire = NoLines
    /\ audit = <<>>
    /\ proc = "up"
    /\ NewWorkerPool
    /\ NewWriter

\* security.enable_ip_tracking = false
Init ==
    /\ enableTracking = FALSE
    /\ \E a \in {"fresh", "locked"} : InitStore(a)
    /\ InitMemory

\* security.enable_ip_tracking = false, alice not registered yet
InitCmd ==
    /\ enableTracking = FALSE
    /\ InitStore("absent")
    /\ InitMemory

\* security.enable_ip_tracking = false, both accounts registered
InitRooms ==
    /\ enableTracking = FALSE
    /\ InitStore("fresh")
    /\ InitMemory

\* security.enable_ip_tracking = false, both accounts registered, and a row of
\* admin_action_log written without details (the column is TEXT NULL)
InitNullLog ==
    /\ enableTracking = FALSE
    /\ InitStore("nulllog")
    /\ InitMemory

\* security.enable_ip_tracking = true
InitTrack ==
    /\ enableTracking = TRUE
    /\ InitStore("fresh")
    /\ InitMemory

(* ------------------------------------------------------------------ *)
(* Helpers of the engine                                               *)
(* ------------------------------------------------------------------ *)
\* the process is alive: Shutdown has not returned and no goroutine has panicked
Running == shut.pc # "done" /\ proc = "up"

\* client.go Handle, line 65: scanner.Scan returns a line to the handler of c,
\* read from the open transport or taken from what the scanner already holds
Ready(c) ==
    /\ Running /\ cst[c] = "open" /\ pc[c] = "idle"
    /\ once[c] # "done" \/ rbuf[c] > 0

\* client.go requireAuth
requireAuth(c) == IF authenticated[c] THEN NoErr ELSE ErrNotAuthenticated

\* conn.Close has not run on the transport of k
Writable(k) == cst[k] = "open" /\ once[k] # "done"

\* client.go Send: the write fails on a closed transport and is only logged
Send(w, k, line) == IF Writable(k) THEN [w EXCEPT ![k] = Append(@, line)] ELSE w

\* keys of the connection index a BroadcastToChannel of room r delivers to
BroadcastKeys(r, excl, joined) ==
    {s \in DOMAIN clients : SessionID[clients[s]] # excl /\ r \in joined[clients[s]]}

\* server.go BroadcastToChannel: one Send per key of the index whose Client has
\* r in its channel list and a session id other than excl
BroadcastToChannel(w, r, line, excl, joined) ==
    [k \in Conns |->
        w[k] \o [i \in 1..(IF Writable(k)
                             THEN Cardinality({s \in BroadcastKeys(r, excl, joined) :
                                                 clients[s] = k})
                             ELSE 0) |-> line]]

\* client.go Handle, line 79
ErrorLine(e) == <<"ERROR", ":">> \o e

\* the lines of the handlers, as the words of their format strings
Notice(text) == <<"NOTICE", ":">> \o text

JoinLine(u, r) == <<u, "JOIN", r>>

PartLine(u, r) == <<u, "PART", r>>

PrivMsgLine(u, t) == <<u, "PRIVMSG", t>>

NamesLines(r) == <<"353", "366", r>>

\* the scanner after it has returned one line
Consume(c) == [rbuf EXCEPT ![c] = IF @ > 0 THEN @ - 1 ELSE 0]

\* what a step completes, writes, logs and leaves in the scanners
Step(rep, lines, rows, buf) ==
    /\ reply' = rep
    /\ wire' = lines
    /\ audit' = rows
    /\ rbuf' = buf
    /\ UNCHANGED <<logNull, proc, poolVars, sendVars>>

\* a Handle that returns to its read loop without writing the error
FinishWithSilent(c, cmd, err, lines, rows) ==
    /\ Step([conn |-> c, cmd |-> cmd, err |-> err], lines, rows, Consume(c))
    /\ pc' = [pc EXCEPT ![c] = IF IsCritical(err) THEN "exit" ELSE "idle"]
    /\ lcl' = [lcl EXCEPT ![c] = NoLocals]

\* client.go Handle, lines 77-85: processCommand has returned err after writing
\* lines and inserting rows; the error goes out as an ERROR line and a critical
\* one ends the read loop (the deferred Disconnect follows)
FinishWith(c, cmd, err, lines, rows) ==
    /\ Step([conn |-> c, cmd |-> cmd, err |-> err],
            IF err # NoErr THEN Send(lines, c, ErrorLine(err)) ELSE lines,
            rows, Consume(c))
    /\ pc' = [pc EXCEPT ![c] = IF IsCritical(err) THEN "exit" ELSE "idle"]
    /\ lcl' = [lcl EXCEPT ![c] = NoLocals]

Finish(c, cmd, err) == FinishWith(c, cmd, err, NoLines, <<>>)

\* a step that completes no command, writes no line and logs nothing
Quiet == Step(NoReply, NoLines, <<>>, rbuf)

\* a session id no map and no connection holds
UsedSids == DOMAIN sessions \cup DOMAIN clients \cup {SessionID[c] : c \in Conns}

generateSessionID == CHOOSE s \in Sids \ UsedSids : \A t \in Sids \ UsedSids : s <= t

\* session.go CreateSession
CreateSessionMap(sid, u) == Put(sessions, sid, [user |-> u, expired |-> FALSE])

CreateSessionIndex(sid, u) ==
    Put(userSessions, u, (IF u \in DOMAIN userSessions THEN userSessions[u] ELSE <<>>) \o <<sid>>)

\* session.go DestroySession
DestroySessionMap(sid) == IF sid \in DOMAIN sessions THEN Remove(sessions, sid) ELSE sessions

\* a DestroySession that keeps the list of the account when it becomes empty
DestroySessionIndexKeepsEmpty(sid) ==
    IF sid \notin DOMAIN sessions THEN userSessions
    ELSE LET u == sessions[sid].user
         IN  Put(userSessions, u,
                 IF u \in DOMAIN userSessions THEN RemoveFirst(userSessions[u], sid) ELSE <<>>)

\* session.go DestroySession, lines 117-127: the id leaves the list of its
\* account, and an empty list leaves the index
DestroySessionIndex(sid) ==
    IF sid \notin DOMAIN sessions THEN userSessions
    ELSE LET u == sessions[sid].user
             rest == IF u \in DOMAIN userSessions THEN RemoveFirst(userSessions[u], sid) ELSE <<>>
         IN  IF rest = <<>> THEN Remove(userSessions, u) ELSE Put(userSessions, u, rest)

(* ------------------------------------------------------------------ *)
(* Disconnect: client.go, lines 144-159                                *)
(* ------------------------------------------------------------------ *)
\* the body calls RemoveClient, which takes clientsMu
NeedsLock(c) == authenticated[c] /\ SessionID[c] # 0

\* who can run (or skip) the once body now
DiscCanFinish(c, who) ==
    \/ once[c] = "done"
    \/ /\ once[c] = "new" \/ (once[c] = "running" /\ onceBy[c] = who)
       /\ ~NeedsLock(c) \/ clientsMu = "free"

\* who enters the once body and blocks in RemoveClient
DiscMustEnter(c, who) == once[c] = "new" /\ NeedsLock(c) /\ clientsMu # "free"

\* RemoveClient, DestroySession, conn.Close
DiscBody(c) ==
    /\ once' = [once EXCEPT ![c] = "done"]
    /\ onceBy' = [onceBy EXCEPT ![c] = "none"]
    /\ IF once[c] # "done" /\ NeedsLock(c)
       THEN /\ clients' = Remove(clients, SessionID[c])
            /\ sessions' = DestroySessionMap(SessionID[c])
            /\ userSessions' = DestroySessionIndex(SessionID[c])
       ELSE UNCHANGED <<clients, sessions, userSessions>>

DiscEnter(c, who) ==
    /\ once' = [once EXCEPT ![c] = "running"]
    /\ onceBy' = [onceBy EXCEPT ![c] = who]
    /\ UNCHANGED <<clients, sessions, userSessions>>

(* ------------------------------------------------------------------ *)
(* Accept and the end of a handler                                     *)
(* ------------------------------------------------------------------ *)
\* server.go Start/handleConnection, client.go NewClient
Accept(c, ip) ==
    /\ shut.pc = "idle" /\ proc = "up"
    /\ cst[c] = "none"
    /\ c \notin asyncDisc
    /\ \A s \in DOMAIN clients : clients[s] # c
    /\ cst' = [cst EXCEPT ![c] = "open"]
    /\ addr' = [addr EXCEPT ![c] = ip]
    /\ authenticated' = [authenticated EXCEPT ![c] = FALSE]
    /\ cuser' = [cuser EXCEPT ![c] = NoUser]
    /\ SessionID' = [SessionID EXCEPT ![c] = 0]
    /\ channels' = [channels EXCEPT ![c] = {}]
    /\ once' = [once EXCEPT ![c] = "new"]
    /\ onceBy' = [onceBy EXCEPT ![c] = "none"]
    /\ pc' = [pc EXCEPT ![c] = "idle"]
    /\ lcl' = [lcl EXCEPT ![c] = NoLocals]
    /\ UNCHANGED <<enableTracking, storeVars, regVars, srvVars, asyncDisc>>
    /\ Step(NoReply,
            [NoLines EXCEPT ![c] = <<Notice(<<"Welcome">>), <<"PUBKEY">> >>],
            <<>>, rbuf)

\* scanner.Scan fails (peer closed, read deadline, transport closed) with no
\* line left in the scanner: the loop ends
ReadFails(c) ==
    /\ Running /\ cst[c] = "open" /\ pc[c] = "idle"
    /\ rbuf[c] = 0
    /\ pc' = [pc EXCEPT ![c] = "exit"]
    /\ UNCHANGED <<enableTracking, storeVars, regVars, srvVars, cst, addr, authenticated,
                   cuser, SessionID, channels, once, onceBy, asyncDisc, lcl>>
    /\ Quiet

\* a closed connection the index still maps to (a key RemoveClient did not delete)
StillIndexed(c, idx) == \E s \in DOMAIN idx : idx[s] = c

\* the deferred c.Disconnect() of Handle, then handleConnection returns; the
\* Client is garbage unless the index still refers to it
HandlerExit(c) ==
    /\ Running /\ cst[c] = "open" /\ pc[c] = "exit"
    /\ \/ /\ DiscCanFinish(c, c)
          /\ DiscBody(c)
          /\ cst' = [cst EXCEPT ![c] = "none"]
          /\ pc' = [pc EXCEPT ![c] = "idle"]
          /\ channels' = [channels EXCEPT ![c] = IF StillIndexed(c, clients') THEN @ ELSE {}]
          /\ authenticated' = [authenticated EXCEPT ![c] = StillIndexed(c, clients') /\ @]
          /\ cuser' = [cuser EXCEPT ![c] = IF StillIndexed(c, clients') THEN @ ELSE NoUser]
          /\ SessionID' = [SessionID EXCEPT ![c] = IF StillIndexed(c, clients') THEN @ ELSE 0]
          /\ addr' = [addr EXCEPT ![c] = NoIP]
          /\ Step(NoReply, NoLines, <<>>, [rbuf EXCEPT ![c] = 0])
       \/ /\ DiscMustEnter(c, c)
          /\ DiscEnter(c, c)
          /\ UNCHANGED <<cst, pc, channels, addr, authenticated, cuser, SessionID>>
          /\ Quiet
    /\ UNCHANGED <<enableTracking, storeVars, clientsMu, shut, asyncDisc, lcl>>

\* client.go Handle, line 65: one Read of the transport brings the scanner n
\* complete lines, which the following calls of Scan return without a Read
ReadAhead(c, n) ==
    /\ Running /\ cst[c] = "open" /\ pc[c] = "idle" /\ once[c] # "done"
    /\ rbuf[c] = 0
    /\ UNCHANGED <<enableTracking, storeVars, regVars, srvVars, connVars>>
    /\ Step(NoReply, NoLines, <<>>, [rbuf EXCEPT ![c] = n])

\* "go client.Disconnect()" of handleAdminKick / handleAdminBan
AsyncDisconnect(c) ==
    /\ Running /\ c \in asyncDisc
    /\ \/ /\ DiscCanFinish(c, "async")
          /\ DiscBody(c)
          /\ asyncDisc' = asyncDisc \ {c}
       \/ /\ DiscMustEnter(c, "async")
          /\ DiscEnter(c, "async")
          /\ UNCHANGED asyncDisc
    /\ UNCHANGED <<enableTracking, storeVars, clientsMu, shut, cst, addr, authenticated,
                   cuser, SessionID, channels, pc, lcl>>
    /\ Quiet


(* ------------------------------------------------------------------ *)
(* REGISTER, PING, PONG, QUIT, KEYEXCHANGE, unknown commands           *)
(* ------------------------------------------------------------------ *)
\* handlers.go handleRegister, auth.go Register up to the UsernameExists query
handleRegister(c, u, p) ==
    /\ Ready(c)
    /\ IF users[u].registered
       THEN Finish(c, "REGISTER", ErrUsernameExists)
       ELSE /\ pc' = [pc EXCEPT ![c] = "register_create"]
            /\ lcl' = [lcl EXCEPT ![c] = [NoLocals EXCEPT !.user = u, !.pw = p]]
            /\ Quiet
    /\ UNCHANGED <<enableTracking, storeVars, regVars, srvVars, cst, addr,
                   authenticated, cuser, SessionID, channels, once, onceBy, asyncDisc>>

\* an INSERT that adds a row whatever the table holds
InsertUserUnchecked(u, p, s) ==
    /\ users' = [users EXCEPT ![u] = [NewUser(p, s, FALSE) EXCEPT !.rows = users[u].rows + 1]]
    /\ sec' = [sec EXCEPT ![u] = FreshSec]

\* user_repository.go Create under the UNIQUE key of users.username: the row is
\* added only if no row of that name exists; trigger after_user_insert
InsertUser(u, p, s) ==
    /\ users[u].rows = 0
    /\ users' = [users EXCEPT ![u] = NewUser(p, s, FALSE)]
    /\ sec' = [sec EXCEPT ![u] = FreshSec]

\* auth.go Register from GenerateSalt on: HashPassword, userRepo.Create
RegisterCreate(c) ==
    /\ Running /\ cst[c] = "open" /\ pc[c] = "register_create"
    /\ \/ /\ \E s \in Salts : InsertUser(lcl[c].user, lcl[c].pw, s)
          /\ FinishWith(c, "REGISTER", NoErr,
                        Send(NoLines, c, Notice(<<"Registration", "successful">>)), <<>>)
       \/ /\ users[lcl[c].user].rows # 0
          /\ UNCHANGED <<users, sec>>
          /\ Finish(c, "REGISTER", ErrCreateUser)
    /\ UNCHANGED <<enableTracking, chans, members, bans, regVars, srvVars, cst, addr,
                   authenticated, cuser, SessionID, channels, once, onceBy, asyncDisc>>

\* handlers.go handlePing
handlePing(c) ==
    /\ Ready(c)
    /\ FinishWith(c, "PING", NoErr, Send(NoLines, c, <<"PONG">>), <<>>)
    /\ UNCHANGED <<enableTracking, storeVars, regVars, srvVars, cst, addr,
                   authenticated, cuser, SessionID, channels, once, onceBy, asyncDisc>>

\* client.go processCommand, case "PONG": return nil
handlePong(c) ==
    /\ Ready(c)
    /\ Finish(c, "PONG", NoErr)
    /\ UNCHANGED <<enableTracking, storeVars, regVars, srvVars, cst, addr,
                   authenticated, cuser, SessionID, channels, once, onceBy, asyncDisc>>

\* client.go processCommand, default
handleUnknown(c) ==
    /\ Ready(c)
    /\ Finish(c, "WHOIS", ErrUnknownCommand)
    /\ UNCHANGED <<enableTracking, storeVars, regVars, srvVars, cst, addr,
                   authenticated, cuser, SessionID, channels, once, onceBy, asyncDisc>>

\* commands that need arguments
ArgCmds == {"REGISTER", "LOGIN", "KEYEXCHANGE", "JOIN", "PART", "PRIVMSG", "ADMIN"}

\* handlers.go, admin_handlers.go: a line with the command word alone.  REGISTER
\* and LOGIN count the fields first, the others call requireAuth first
handleShort(c, cmd) ==
    /\ Ready(c)
    /\ Finish(c, cmd, IF cmd \notin {"REGISTER", "LOGIN"} /\ requireAuth(c) # NoErr
                      THEN requireAuth(c) ELSE ErrUsage(cmd))
    /\ UNCHANGED <<enableTracking, storeVars, regVars, srvVars, cst, addr,
                   authenticated, cuser, SessionID, channels, once, onceBy, asyncDisc>>

\* admin_handlers.go handleAdminCommand, default: a subcommand that is none of
\* the nine
handleAdminUnknown(c) ==
    /\ Ready(c)
    /\ Finish(c, "ADMIN", IF requireAuth(c) # NoErr THEN requireAuth(c) ELSE ErrUnknownAdmin)
    /\ UNCHANGED <<enableTracking, storeVars, regVars, srvVars, cst, addr,
                   authenticated, cuser, SessionID, channels, once, onceBy, asyncDisc>>

\* handlers.go handleKeyExchange
handleKeyExchange(c) ==
    /\ Ready(c)
    /\ FinishWith(c, "KEYEXCHANGE", requireAuth(c),
                  IF requireAuth(c) = NoErr
                  THEN Send(Send(NoLines, c, <<"SESSIONKEY">>), c,
                            Notice(<<"Key", "exchange", "complete">>))
                  ELSE NoLines, <<>>)
    /\ UNCHANGED <<enableTracking, storeVars, regVars, srvVars, cst, addr,
                   authenticated, cuser, SessionID, channels, once, onceBy, asyncDisc>>

\* handlers.go line 172
ClosingLine == <<"ERROR", ":", "Closing", "connection">>

\* handlers.go handleQuit: the ERROR line, then c.Disconnect() inside the handler
handleQuit(c) ==
    /\ Ready(c) \/ (Running /\ cst[c] = "open" /\ pc[c] = "quit")
    /\ \/ /\ DiscCanFinish(c, c)
          /\ DiscBody(c)
          /\ Step([conn |-> c, cmd |-> "QUIT", err |-> NoErr],
                  IF pc[c] = "idle" THEN Send(NoLines, c, ClosingLine) ELSE NoLines,
                  <<>>, Consume(c))
          /\ pc' = [pc EXCEPT ![c] = "idle"]
       \/ /\ DiscMustEnter(c, c)
          /\ DiscEnter(c, c)
          /\ pc' = [pc EXCEPT ![c] = "quit"]
          /\ Step(NoReply, Send(NoLines, c, ClosingLine), <<>>, rbuf)
    /\ UNCHANGED <<enableTracking, storeVars, clientsMu, shut, cst, addr, authenticated,
                   cuser, SessionID, channels, asyncDisc, lcl>>

(* ------------------------------------------------------------------ *)
(* LOGIN: handlers.go handleLogin, auth.go Login,                      *)
(* ip_tracking.go CheckIPAndTrack, security_repository.go              *)
(* ------------------------------------------------------------------ *)
\* auth.go Login: the error it returns
LoginError(u, p) ==
    IF ~users[u].registered THEN ErrInvalidCredentials
    ELSE IF ~users[u].active THEN ErrInactive
    ELSE IF ~VerifyPassword(Str(p), users[u].salt, users[u].hash)
         THEN ErrInvalidCredentials
    ELSE NoErr

handleLogin(c, u, p) ==
    /\ Ready(c)
    /\ IF LoginError(u, p) # NoErr
       THEN Finish(c, "LOGIN", LoginFailed(LoginError(u, p)))
       ELSE /\ pc' = [pc EXCEPT ![c] = "login_check"]
            /\ lcl' = [lcl EXCEPT ![c] = [NoLocals EXCEPT !.user = u, !.pw = p]]
            /\ Quiet
    /\ UNCHANGED <<enableTracking, storeVars, regVars, srvVars, cst, addr,
                   authenticated, cuser, SessionID, channels, once, onceBy, asyncDisc>>

\* the comparison written with >=
ReachesThreshold(n) == n >= MaxIPSuspicion

\* ip_tracking.go line 60
ExceedsThreshold(n) == n > MaxIPSuspicion

\* a check that counts the first login as a change of address
CheckBranchCountsFirst(row, ip) ==
    IF ~enableTracking THEN "login_session"
    ELSE IF row.locked THEN "locked"
    ELSE IF row.lastKnownIP # ip THEN "login_inc"
    ELSE "login_session"

\* ip_tracking.go lines 26-50: GetSecurityStatus and the branch taken on the row read
CheckBranch(row, ip) ==
    IF ~enableTracking THEN "login_session"
    ELSE IF row.locked THEN "locked"
    ELSE IF row.lastKnownIP = NoIP THEN "login_first_ip"
    ELSE IF row.lastKnownIP # ip THEN "login_inc"
    ELSE "login_session"

LoginCheck(c) ==
    /\ Running /\ cst[c] = "open" /\ pc[c] = "login_check"
    /\ LET row == sec[lcl[c].user]
           br == CheckBranch(row, addr[c])
       IN  IF br = "locked"
           THEN Finish(c, "LOGIN", LoginBlocked(ErrAlreadyLocked(
                    IF row.reason = <<>> THEN DefaultLockReason ELSE row.reason)))
           ELSE /\ pc' = [pc EXCEPT ![c] = br]
                /\ UNCHANGED lcl /\ Quiet
    /\ UNCHANGED <<enableTracking, storeVars, regVars, srvVars, cst, addr,
                   authenticated, cuser, SessionID, channels, once, onceBy, asyncDisc>>

\* security_repository.go UpdateLastKnownIP (first login, or address change accepted)
LoginSetIP(c) ==
    /\ Running /\ cst[c] = "open" /\ pc[c] \in {"login_first_ip", "login_set_ip"}
    /\ sec' = [sec EXCEPT ![lcl[c].user].lastKnownIP = addr[c]]
    /\ pc' = [pc EXCEPT ![c] = "login_session"]
    /\ UNCHANGED <<enableTracking, users, chans, members, bans, regVars, srvVars, cst, addr,
                   authenticated, cuser, SessionID, channels, once, onceBy, asyncDisc,
                   lcl>>
    /\ Quiet

\* security_repository.go IncrementSuspicionCount, lines 90-99: the UPDATE
LoginIncUpdate(c) ==
    /\ Running /\ cst[c] = "open" /\ pc[c] = "login_inc"
    /\ sec[lcl[c].user].count < MaxCount
    /\ sec' = [sec EXCEPT ![lcl[c].user].count = @ + 1]
    /\ lcl' = [lcl EXCEPT ![c].own = sec[lcl[c].user].count + 1]
    /\ pc' = [pc EXCEPT ![c] = "login_sel"]
    /\ UNCHANGED <<enableTracking, users, chans, members, bans, regVars, srvVars, cst, addr,
                   authenticated, cuser, SessionID, channels, once, onceBy, asyncDisc>>
    /\ Quiet

\* security_repository.go IncrementSuspicionCount, lines 101-106: the SELECT that
\* gives the value returned, then ip_tracking.go line 60
LoginIncSelect(c) ==
    /\ Running /\ cst[c] = "open" /\ pc[c] = "login_sel"
    /\ lcl' = [lcl EXCEPT ![c].newCount = sec[lcl[c].user].count]
    /\ pc' = [pc EXCEPT ![c] = IF ExceedsThreshold(sec[lcl[c].user].count)
                               THEN "login_lock" ELSE "login_set_ip"]
    /\ UNCHANGED <<enableTracking, storeVars, regVars, srvVars, cst, addr,
                   authenticated, cuser, SessionID, channels, once, onceBy, asyncDisc>>
    /\ Quiet

\* security_repository.go LockAccount, then the error of ip_tracking.go line 68
LoginLock(c) ==
    /\ Running /\ cst[c] = "open" /\ pc[c] = "login_lock"
    /\ sec' = [sec EXCEPT ![lcl[c].user].locked = TRUE,
                          ![lcl[c].user].reason = LockReasonText(lcl[c].newCount),
                          ![lcl[c].user].lockedAt = TRUE,
                          ![lcl[c].user].lockedBy = NoUser]
    /\ Finish(c, "LOGIN", LoginBlocked(ErrLockFired))
    /\ UNCHANGED <<enableTracking, users, chans, members, bans, regVars, srvVars, cst, addr,
                   authenticated, cuser, SessionID, channels, once, onceBy, asyncDisc>>

\* handlers.go lines 55-72: CreateSession and the fields of the Client
LoginSession(c) ==
    /\ Running /\ cst[c] = "open" /\ pc[c] = "login_session"
    /\ Sids \ UsedSids # {}
    /\ LET sid == generateSessionID
           u == lcl[c].user
       IN  /\ sessions' = CreateSessionMap(sid, u)
           /\ userSessions' = CreateSessionIndex(sid, u)
           /\ cuser' = [cuser EXCEPT ![c] = u]
           /\ authenticated' = [authenticated EXCEPT ![c] = TRUE]
           /\ SessionID' = [SessionID EXCEPT ![c] = sid]
    /\ pc' = [pc EXCEPT ![c] = "login_add"]
    /\ UNCHANGED <<enableTracking, storeVars, srvVars, cst, addr, channels, once,
                   onceBy, asyncDisc, lcl>>
    /\ Quiet

\* server.go AddClient, then the two NOTICE lines
LoginAdd(c) ==
    /\ Running /\ cst[c] = "open" /\ pc[c] = "login_add"
    /\ clientsMu = "free"
    /\ clients' = Put(clients, SessionID[c], c)
    /\ FinishWith(c, "LOGIN", NoErr,
                  Send(Send(NoLines, c, Notice(<<"Login", "successful">>)), c,
                       Notice(<<"Please", "exchange", "encryption", "keys">>)), <<>>)
    /\ UNCHANGED <<enableTracking, storeVars, regVars, clientsMu, shut, cst, addr,
                   authenticated, cuser, SessionID, channels, once, onceBy, asyncDisc>>


(* ------------------------------------------------------------------ *)
(* JOIN, PART, PRIVMSG: handlers.go and handlers_complete.go           *)
(* ------------------------------------------------------------------ *)
\* channel_repository.go IsMember
IsMember(r, u) == members[r][u] # "none"

\* handlers.go handleJoin, handlers_complete.go lines 12-29: GetByName and, for
\* a channel that exists, the IsMember read
handleJoin(c, r) ==
    /\ Ready(c)
    /\ IF requireAuth(c) # NoErr
       THEN Finish(c, "JOIN", requireAuth(c))
       ELSE /\ pc' = [pc EXCEPT ![c] = IF r \notin chans THEN "join_create"
                                       ELSE IF IsMember(r, cuser[c]) THEN "join_local"
                                       ELSE "join_add"]
            /\ lcl' = [lcl EXCEPT ![c] = [NoLocals EXCEPT !.user = cuser[c], !.room = r]]
            /\ Quiet
    /\ UNCHANGED <<enableTracking, storeVars, regVars, srvVars, cst, addr,
                   authenticated, cuser, SessionID, channels, once, onceBy, asyncDisc>>

\* channel_repository.go Create, lines 25-33: the INSERT into channels, whose
\* channel_name is UNIQUE
JoinCreate(c) ==
    /\ Running /\ cst[c] = "open" /\ pc[c] = "join_create"
    /\ IF lcl[c].room \in chans
       THEN /\ Finish(c, "JOIN", ErrCreateChannel)
            /\ UNCHANGED chans
       ELSE /\ chans' = chans \cup {lcl[c].room}
            /\ pc' = [pc EXCEPT ![c] = "join_owner"]
            /\ UNCHANGED lcl /\ Quiet
    /\ UNCHANGED <<enableTracking, users, sec, members, bans, regVars, srvVars, cst, addr,
                   authenticated, cuser, SessionID, channels, once, onceBy, asyncDisc>>

\* channel_repository.go Create, lines 40-45: AddMember of the creator as owner
\* (unique_membership rejects a second row), GetByID, and the IsMember read of
\* handlers_complete.go line 26
JoinOwner(c) ==
    /\ Running /\ cst[c] = "open" /\ pc[c] = "join_owner"
    /\ IF IsMember(lcl[c].room, lcl[c].user)
       THEN /\ Finish(c, "JOIN", ErrAddOwner)
            /\ UNCHANGED members
       ELSE /\ members' = [members EXCEPT ![lcl[c].room][lcl[c].user] = "owner"]
            /\ pc' = [pc EXCEPT ![c] = "join_local"]
            /\ UNCHANGED lcl /\ Quiet
    /\ UNCHANGED <<enableTracking, users, sec, chans, bans, regVars, srvVars, cst, addr,
                   authenticated, cuser, SessionID, channels, once, onceBy, asyncDisc>>

\* handlers_complete.go lines 31-36: AddMember; unique_membership rejects a second row
JoinAdd(c) ==
    /\ Running /\ cst[c] = "open" /\ pc[c] = "join_add"
    /\ IF IsMember(lcl[c].room, lcl[c].user)
       THEN /\ Finish(c, "JOIN", ErrJoinFailed)
            /\ UNCHANGED members
       ELSE /\ members' = [members EXCEPT ![lcl[c].room][lcl[c].user] = "member"]
            /\ pc' = [pc EXCEPT ![c] = "join_local"]
            /\ UNCHANGED lcl /\ Quiet
    /\ UNCHANGED <<enableTracking, users, sec, chans, bans, regVars, srvVars, cst, addr,
                   authenticated, cuser, SessionID, channels, once, onceBy, asyncDisc>>

\* client.go JoinChannel
JoinChannel(set, r) == set \cup {r}

\* client.go LeaveChannel
LeaveChannel(set, r) == set \ {r}

\* handlers_complete.go lines 38-86: JoinChannel, the replies, BroadcastToChannel
JoinLocal(c) ==
    /\ Running /\ cst[c] = "open" /\ pc[c] = "join_local"
    /\ clientsMu = "free"
    /\ channels' = [channels EXCEPT ![c] = JoinChannel(@, lcl[c].room)]
    /\ FinishWith(c, "JOIN", NoErr,
                  BroadcastToChannel(
                      Send(Send(NoLines, c, JoinLine(cuser[c], lcl[c].room)), c,
                           NamesLines(lcl[c].room)),
                      lcl[c].room, JoinLine(cuser[c], lcl[c].room), SessionID[c],
                      channels'),
                  <<>>)
    /\ UNCHANGED <<enableTracking, storeVars, regVars, srvVars, cst, addr,
                   authenticated, cuser, SessionID, once, onceBy, asyncDisc>>

\* handlers.go handlePart, handlers_complete.go lines 91-107
PartError(c, r) ==
    IF requireAuth(c) # NoErr THEN requireAuth(c)
    ELSE IF r \notin chans THEN ErrChannelNotFound
    ELSE IF ~IsMember(r, cuser[c]) THEN ErrNotInChannel
    ELSE NoErr

handlePart(c, r) ==
    /\ Ready(c)
    /\ IF PartError(c, r) # NoErr
       THEN Finish(c, "PART", PartError(c, r))
       ELSE /\ pc' = [pc EXCEPT ![c] = "part_remove"]
            /\ lcl' = [lcl EXCEPT ![c] = [NoLocals EXCEPT !.user = cuser[c], !.room = r]]
            /\ Quiet
    /\ UNCHANGED <<enableTracking, storeVars, regVars, srvVars, cst, addr,
                   authenticated, cuser, SessionID, channels, once, onceBy, asyncDisc>>

\* handlers_complete.go lines 109-117: BroadcastToChannel, then RemoveMember
PartRemove(c) ==
    /\ Running /\ cst[c] = "open" /\ pc[c] = "part_remove"
    /\ clientsMu = "free"
    /\ members' = [members EXCEPT ![lcl[c].room][lcl[c].user] = "none"]
    /\ pc' = [pc EXCEPT ![c] = "part_local"]
    /\ UNCHANGED <<enableTracking, users, sec, chans, bans, regVars, srvVars, cst, addr,
                   authenticated, cuser, SessionID, channels, once, onceBy, asyncDisc,
                   lcl>>
    /\ Step(NoReply,
            BroadcastToChannel(NoLines, lcl[c].room, PartLine(cuser[c], lcl[c].room), 0,
                               channels),
            <<>>, rbuf)

\* handlers_complete.go lines 119-127: LeaveChannel and the reply
PartLocal(c) ==
    /\ Running /\ cst[c] = "open" /\ pc[c] = "part_local"
    /\ channels' = [channels EXCEPT ![c] = LeaveChannel(@, lcl[c].room)]
    /\ FinishWith(c, "PART", NoErr, Send(NoLines, c, PartLine(cuser[c], lcl[c].room)),
                  <<>>)
    /\ UNCHANGED <<enableTracking, storeVars, regVars, srvVars, cst, addr,
                   authenticated, cuser, SessionID, once, onceBy, asyncDisc>>

\* connections the index maps to that are logged in as u
IndexedAs(u) == {clients[s] : s \in {t \in DOMAIN clients : cuser[clients[t]] = u}}

\* handlers.go handlePrivMsg, handlers_complete.go sendChannelMessage / sendDirectMessage
PrivMsgError(c, target) ==
    IF requireAuth(c) # NoErr THEN requireAuth(c)
    ELSE IF target \in Rooms
         THEN IF target \notin chans THEN ErrChannelNotFound
              ELSE IF ~IsMember(target, cuser[c]) THEN ErrNotAMember
              ELSE NoErr
         ELSE IF ~users[target].registered THEN ErrUserNotFound
              ELSE IF IndexedAs(target) = {} THEN ErrOffline
              ELSE NoErr

\* sendChannelMessage lines 166-172: the broadcast that leaves the sender out,
\* then the echo
ChannelLines(c, r) ==
    Send(BroadcastToChannel(NoLines, r, PrivMsgLine(cuser[c], r), SessionID[c], channels),
         c, PrivMsgLine(cuser[c], r))

handlePrivMsg(c, target) ==
    /\ Ready(c)
    /\ authenticated[c] => clientsMu = "free"
    /\ IF PrivMsgError(c, target) # NoErr
       THEN Finish(c, "PRIVMSG", PrivMsgError(c, target))
       ELSE IF target \in Rooms
            THEN FinishWith(c, "PRIVMSG", NoErr, ChannelLines(c, target), <<>>)
            ELSE \E k \in IndexedAs(target) :
                    FinishWith(c, "PRIVMSG", NoErr,
                               Send(NoLines, k, PrivMsgLine(cuser[c], target)), <<>>)
    /\ UNCHANGED <<enableTracking, storeVars, regVars, srvVars, cst, addr,
                   authenticated, cuser, SessionID, channels, once, onceBy, asyncDisc>>

(* ------------------------------------------------------------------ *)
(* ADMIN: admin_handlers.go, admin/commands.go                         *)
(* ------------------------------------------------------------------ *)
AdminSubs == {"unlock", "kick", "ban", "unban"}

\* makeadmin, removeadmin
OperatorSubs == {"makeadmin", "removeadmin"}

\* broadcast, stats, log
ReportSubs == {"broadcast", "stats", "log"}

\* the <duration_seconds> argument of ADMIN ban
Durations == {"0", "60", "bad"}

ErrInvalidDuration == <<"invalid", "duration", "format">>

ErrQueueFull == <<"failed", "to", "submit", "job:", "queue", "full">>
ErrShuttingDown == <<"worker", "pool", "is", "shutting", "down">>

\* RemoveAdmin without the test of adminID == targetUserID
SelfDemoteAllowed == NoErr

ErrSelfDemote == <<"cannot", "remove", "your", "own", "admin", "privileges">>

\* commands.go ParseDuration: "0" is no duration, digits are seconds, anything
\* that neither strconv.Atoi nor time.ParseDuration takes is an error
ParseDuration(d) ==
    IF d = "0" THEN [err |-> NoErr, seconds |-> 0]
    ELSE IF d = "60" THEN [err |-> NoErr, seconds |-> 60]
    ELSE [err |-> ErrInvalidDuration, seconds |-> 0]

\* a name with no row in the table users
Stranger == "bob"

\* user_repository.go GetByUsername finds a row
Registered(t) == t \in DOMAIN users /\ users[t].registered

\* commands.go RequireAdmin: the flag as stored now
RequireAdmin(u) == IF users[u].admin THEN NoErr ELSE ErrPermission

\* BanUser and KickUser without the test of the target's flag
AdminErrorUnshielded(c, sub, t, d) ==
    IF requireAuth(c) # NoErr THEN requireAuth(c)
    ELSE IF sub = "ban" /\ ParseDuration(d).err # NoErr THEN ParseDuration(d).err
    ELSE IF sub \in OperatorSubs /\ ~Registered(t) THEN ErrUserNotFound
    ELSE IF RequireAdmin(cuser[c]) # NoErr THEN RequireAdmin(cuser[c])
    ELSE IF sub \in AdminSubs /\ ~Registered(t) THEN ErrUserNotFound
    ELSE IF sub = "removeadmin" /\ t = cuser[c] THEN ErrSelfDemote
    ELSE NoErr

\* the error of the handler of a subcommand and of the service call behind it, in
\* the order the code makes its tests
AdminError(c, sub, t, d) ==
    IF requireAuth(c) # NoErr THEN requireAuth(c)
    ELSE IF sub = "ban" /\ ParseDuration(d).err # NoErr THEN ParseDuration(d).err
    ELSE IF sub \in OperatorSubs /\ ~Registered(t) THEN ErrUserNotFound
    ELSE IF RequireAdmin(cuser[c]) # NoErr THEN RequireAdmin(cuser[c])
    ELSE IF sub \in AdminSubs /\ ~Registered(t) THEN ErrUserNotFound
    ELSE IF sub \in {"kick", "ban"} /\ users[t].admin THEN ErrCannotTargetAdmin(sub)
    ELSE IF sub = "removeadmin" /\ t = cuser[c] THEN ErrSelfDemote
    ELSE NoErr

\* an UPDATE that leaves suspicious_ip_count out
UnlockRowKeepsCount(row) == [row EXCEPT !.locked = FALSE, !.reason = <<>>,
                                        !.lockedAt = FALSE, !.lockedBy = NoUser]

\* security_repository.go UnlockAccount
UnlockRow(row) == [row EXCEPT !.locked = FALSE, !.count = 0, !.reason = <<>>,
                              !.lockedAt = FALSE, !.lockedBy = NoUser]

\* admin_repository.go LogAction: the row it inserts
LogAction(actor, type, target) == <<[admin |-> actor, type |-> type, target |-> target]>>

\* admin_handlers.go lines 61 and 95
ExpelLine(sub) == <<"ERROR", ":", IF sub = "kick" THEN "Kicked" ELSE "Banned", "by", "admin">>

\* admin_handlers.go lines 58-68 and 92-107: the first Client the range over the
\* index finds logged in as t gets the ERROR line and a detached Disconnect, then
\* the NOTICE to the operator
Expel(c, sub, t, rows) ==
    /\ clientsMu = "free"
    /\ IF IndexedAs(t) = {}
       THEN /\ UNCHANGED asyncDisc
            /\ FinishWith(c, "ADMIN", NoErr, Send(NoLines, c, Notice(<<sub, t>>)), rows)
       ELSE \E k \in IndexedAs(t) :
               /\ asyncDisc' = asyncDisc \cup {k}
               /\ FinishWith(c, "ADMIN", NoErr,
                             Send(Send(NoLines, k, ExpelLine(sub)), c, Notice(<<sub, t>>)),
                             rows)

\* admin_handlers.go lines 202-208: one Send per key of the index
BroadcastAll(line) ==
    [k \in Conns |->
        [i \in 1..(IF Writable(k) THEN Cardinality({s \in DOMAIN clients : clients[s] = k})
                   ELSE 0) |-> line]]

\* admin_handlers.go handleAdminCommand and the handler of the subcommand, up to
\* the first statement of the service call that changes the store
handleAdminCommand(c, sub, t, d) ==
    /\ Ready(c)
    /\ IF AdminError(c, sub, t, d) # NoErr
       THEN /\ Finish(c, "ADMIN", AdminError(c, sub, t, d))
            /\ UNCHANGED <<users, sec, bans, asyncDisc>>
       ELSE CASE sub = "unlock" ->
                   /\ sec' = [sec EXCEPT ![t] = UnlockRow(@)]
                   /\ FinishWith(c, "ADMIN", NoErr, Send(NoLines, c, Notice(<<sub, t>>)),
                                 LogAction(cuser[c], sub, t))
                   /\ UNCHANGED <<users, bans, asyncDisc>>
              [] sub = "kick" ->
                   /\ Expel(c, sub, t, LogAction(cuser[c], sub, t))
                   /\ UNCHANGED <<users, sec, bans>>
              [] sub = "ban" ->
                   /\ bans' = bans \cup {t}
                   /\ pc' = [pc EXCEPT ![c] = "ban_active"]
                   /\ lcl' = [lcl EXCEPT ![c] = [NoLocals EXCEPT !.user = t]]
                   /\ UNCHANGED <<users, sec, asyncDisc>>
                   /\ Quiet
              [] sub = "unban" ->
                   /\ bans' = bans \ {t}
                   /\ pc' = [pc EXCEPT ![c] = "unban_active"]
                   /\ lcl' = [lcl EXCEPT ![c] = [NoLocals EXCEPT !.user = t]]
                   /\ UNCHANGED <<users, sec, asyncDisc>>
                   /\ Quiet
              [] sub \in OperatorSubs ->
                   /\ pc' = [pc EXCEPT ![c] = sub]
                   /\ lcl' = [lcl EXCEPT ![c] = [NoLocals EXCEPT !.user = t]]
                   /\ UNCHANGED <<users, sec, bans, asyncDisc>>
                   /\ Quiet
              [] sub = "broadcast" ->
                   /\ clientsMu = "free"
                   /\ FinishWith(c, "ADMIN", NoErr, BroadcastAll(Notice(<<"[BROADCAST]">>)),
                                 LogAction(cuser[c], sub, NoUser))
                   /\ UNCHANGED <<users, sec, bans, asyncDisc>>
              [] sub \in {"stats", "log"} ->
                   /\ clientsMu = "free"
                   /\ ~(sub = "log" /\ logNull)
                   /\ FinishWith(c, "ADMIN", NoErr, Send(NoLines, c, Notice(<<sub>>)), <<>>)
                   /\ UNCHANGED <<users, sec, bans, asyncDisc>>
    /\ UNCHANGED <<enableTracking, chans, members, regVars, srvVars, cst, addr,
                   authenticated, cuser, SessionID, channels, once, onceBy>>

\* admin_handlers.go handleAdminLog, lines 244-254: after the header line the
\* loop formats *log.ActionDetails of a row whose action_details is NULL; the
\* nil dereference panics in the handler goroutine, nothing recovers, and the
\* process ends
handleAdminLogPanic(c) ==
    /\ Ready(c)
    /\ logNull
    /\ AdminError(c, "log", cuser[c], "0") = NoErr
    /\ proc' = "panicked"
    /\ reply' = NoReply
    /\ wire' = Send(NoLines, c, Notice(<<"log">>))
    /\ audit' = <<>>
    /\ UNCHANGED <<enableTracking, storeVars, regVars, srvVars, connVars, rbuf, logNull,
                   poolVars, sendVars>>

\* commands.go MakeAdmin lines 50-57 and RemoveAdmin lines 69-76, after
\* RequireAdmin and the test of the target have passed: the UPDATE of
\* SetAdminStatus, a statement of its own, then LogAction and the NOTICE of the
\* handler
SetAdminStatus(c) ==
    /\ Running /\ cst[c] = "open" /\ pc[c] \in OperatorSubs
    /\ users' = [users EXCEPT ![lcl[c].user].admin = (pc[c] = "makeadmin")]
    /\ FinishWith(c, "ADMIN", NoErr, Send(NoLines, c, Notice(<<pc[c], lcl[c].user>>)),
                  LogAction(cuser[c], pc[c], lcl[c].user))
    /\ UNCHANGED <<enableTracking, sec, chans, members, bans, regVars, srvVars, cst, addr,
                   authenticated, cuser, SessionID, channels, once, onceBy, asyncDisc>>

\* commands.go lines 103-108, admin_handlers.go lines 92-110: SetActiveStatus
\* (false), LogAction, then the target is sent away
BanDeactivate(c) ==
    /\ Running /\ cst[c] = "open" /\ pc[c] = "ban_active"
    /\ users' = [users EXCEPT ![lcl[c].user].active = FALSE]
    /\ Expel(c, "ban", lcl[c].user, LogAction(cuser[c], "ban", lcl[c].user))
    /\ UNCHANGED <<enableTracking, sec, chans, members, bans, regVars, srvVars, cst, addr,
                   authenticated, cuser, SessionID, channels, once, onceBy>>

\* commands.go lines 127-132, admin_handlers.go line 124: SetActiveStatus (true),
\* LogAction and the NOTICE
UnbanActivate(c) ==
    /\ Running /\ cst[c] = "open" /\ pc[c] = "unban_active"
    /\ users' = [users EXCEPT ![lcl[c].user].active = TRUE]
    /\ FinishWith(c, "ADMIN", NoErr, Send(NoLines, c, Notice(<<"unban", lcl[c].user>>)),
                  LogAction(cuser[c], "unban", lcl[c].user))
    /\ UNCHANGED <<enableTracking, sec, chans, members, bans, regVars, srvVars, cst, addr,
                   authenticated, cuser, SessionID, channels, once, onceBy, asyncDisc>>

(* ------------------------------------------------------------------ *)
(* Session expiry: session.go cleanupExpiredSessions                   *)
(* ------------------------------------------------------------------ *)
\* sessionTimeout passes with no UpdateActivity call: now is after ExpiresAt
TTLElapses ==
    /\ Running
    /\ \E s \in DOMAIN sessions : ~sessions[s].expired
    /\ sessions' = [s \in DOMAIN sessions |-> [sessions[s] EXCEPT !.expired = TRUE]]
    /\ UNCHANGED <<enableTracking, storeVars, userSessions, srvVars, connVars>>
    /\ Quiet

Expired == {s \in DOMAIN sessions : sessions[s].expired}

SweepMap == [s \in DOMAIN sessions \ Expired |-> sessions[s]]

SweepIndex ==
    LET keep(u) == SelectSeq(userSessions[u], LAMBDA s : s \notin Expired)
    IN  [u \in {v \in DOMAIN userSessions : keep(v) # <<>>} |-> keep(u)]

\* one tick of the sweeper
Sweep ==
    /\ Running
    /\ Expired # {}
    /\ sessions' = SweepMap
    /\ userSessions' = SweepIndex
    /\ UNCHANGED <<enableTracking, storeVars, srvVars, connVars>>
    /\ Quiet

\* session.go DestroyUserSessions: every id listed under the account leaves the
\* map, and the list leaves the index
DestroyUserSessions(u) ==
    /\ Running
    /\ u \in DOMAIN userSessions
    /\ sessions' = [s \in DOMAIN sessions \
                        {userSessions[u][i] : i \in 1..Len(userSessions[u])} |-> sessions[s]]
    /\ userSessions' = Remove(userSessions, u)
    /\ UNCHANGED <<enableTracking, storeVars, srvVars, connVars>>
    /\ Quiet

\* session.go UpdateActivity: a session that is in the map gets a new expiry,
\* sessionTimeout from now
UpdateActivity(sid) ==
    /\ Running
    /\ sid \in DOMAIN sessions
    /\ sessions' = [sessions EXCEPT ![sid].expired = FALSE]
    /\ UNCHANGED <<enableTracking, storeVars, userSessions, srvVars, connVars>>
    /\ Quiet

\* session.go GetActiveSessionCount
GetActiveSessionCount == Cardinality(DOMAIN sessions)

ErrSessionNotFound == <<"session", "not", "found">>
ErrSessionExpired == <<"session", "expired">>
NoSession == [user |-> NoUser, expired |-> FALSE]

\* GetSession that leaves out the comparison with ExpiresAt
GetSessionStale(sid) ==
    IF sid \notin DOMAIN sessions
    THEN [session |-> NoSession, err |-> ErrSessionNotFound]
    ELSE [session |-> sessions[sid], err |-> NoErr]

\* session.go GetSession, lines 75-89
GetSession(sid) ==
    IF sid \notin DOMAIN sessions
    THEN [session |-> NoSession, err |-> ErrSessionNotFound]
    ELSE IF sessions[sid].expired
    THEN [session |-> NoSession, err |-> ErrSessionExpired]
    ELSE [session |-> sessions[sid], err |-> NoErr]

(* ------------------------------------------------------------------ *)
(* Shutdown: server.go lines 196-236                                   *)
(* ------------------------------------------------------------------ *)
\* close(s.shutdown), listener.Close(), s.clientsMu.Lock()
ShutdownBegin ==
    /\ shut.pc = "idle"
    /\ clientsMu = "free"
    /\ clientsMu' = "shutdown"
    /\ shut' = [pc |-> "loop", todo |-> DOMAIN clients, cur |-> 0, sent |-> {}]
    /\ UNCHANGED <<enableTracking, storeVars, regVars, clients, connVars>>
    /\ Quiet

\* one iteration of the range loop: client.Send, then client.Disconnect() with
\* clientsMu still held.  A Disconnect that enters the once body, or that waits
\* for the goroutine inside it, waits for clientsMu, which this goroutine holds:
\* the call does not return and shut.cur stays set
ShutdownVisit(s) ==
    /\ shut.pc = "loop" /\ shut.cur = 0 /\ s \in shut.todo
    /\ LET c == clients[s]
       IN  \/ /\ DiscCanFinish(c, "shutdown")
              /\ DiscBody(c)
              /\ shut' = [shut EXCEPT !.todo = @ \ {s}, !.sent = @ \cup {c}]
           \/ /\ DiscMustEnter(c, "shutdown")
              /\ DiscEnter(c, "shutdown")
              /\ shut' = [shut EXCEPT !.cur = s, !.sent = @ \cup {c}]
           \/ /\ once[c] = "running"
              /\ shut' = [shut EXCEPT !.cur = s, !.sent = @ \cup {c}]
              /\ UNCHANGED <<once, onceBy, clients, sessions, userSessions>>
    /\ UNCHANGED <<enableTracking, storeVars, clientsMu, cst, addr, authenticated,
                   cuser, SessionID, channels, asyncDisc, pc, lcl>>
    /\ Step(NoReply, Send(NoLines, clients[s], <<"ERROR", ":", "Server", "shutting", "down">>),
            <<>>, rbuf)

\* s.clientsMu.Unlock()
ShutdownUnlock ==
    /\ shut.pc = "loop" /\ shut.cur = 0 /\ shut.todo = {}
    /\ clientsMu' = "free"
    /\ shut' = [shut EXCEPT !.pc = "wait"]
    /\ UNCHANGED <<enableTracking, storeVars, regVars, clients, connVars>>
    /\ Quiet

\* wg.Wait() or the 10 s timer, db.Close(), return
ShutdownFinish ==
    /\ shut.pc = "wait"
    /\ shut' = [shut EXCEPT !.pc = "done"]
    /\ UNCHANGED <<enableTracking, storeVars, regVars, clients, clientsMu, connVars>>
    /\ Quiet

ShutdownNext ==
    \/ \E s \in Sids : ShutdownVisit(s)
    \/ ShutdownUnlock
    \/ ShutdownFinish

(* ------------------------------------------------------------------ *)
(* Worker pool: threadpool/pool.go                                     *)
(* ------------------------------------------------------------------ *)
\* goroutines of startWorker that have not finished
LiveWorkers == {w \in Goroutines : wk[w] \in {"select", "job", "leaving"}}

\* a goroutine of the pool has panicked and nothing recovers: the process is gone
Crashed ==
    \/ \E w \in Goroutines : wk[w] = "panic"
    \/ \E s \in Submitters : caller[s].pc = "panic"

\* pool.go startWorker, lines 55-63: the counter goes up under workersMu and
\* the goroutine is created on the next free slot
startWorker(n) ==
    /\ activeWorkers' = activeWorkers + n
    /\ wk' = [w \in Goroutines |->
                 IF w \in (spawned + 1)..(spawned + n) THEN "select" ELSE wk[w]]
    /\ spawned' = spawned + n

\* pool.go Start, lines 47-53
Start ==
    /\ ~Crashed
    /\ ~started
    /\ started' = TRUE
    /\ startWorker(workers)
    /\ ret' = NoRet
    /\ UNCHANGED <<jobQueue, accepted, caller, downVars, engineVars,
                   sendVars, executed>>

\* calls of Submit that have decided to spawn and have not yet done it
Spawning == {s \in Submitters : caller[s].pc = "spawn"}

\* pool.go Submit, lines 115-133: the queue length is read, and when it is
\* above half the capacity the counter is compared with maxWorkers under
\* workersMu, which is released before startWorker is called
Submit(s) ==
    /\ ~Crashed
    /\ started
    /\ caller[s].pc = "idle"
    /\ accepted < MaxJobs
    /\ spawned + Cardinality(Spawning) < MaxGoroutines
    /\ accepted' = accepted + 1
    /\ IF ctxDone
       THEN /\ ret' = [caller |-> s, job |-> accepted + 1, err |-> ErrShuttingDown]
            /\ UNCHANGED caller
       ELSE /\ ret' = NoRet
            /\ caller' = [caller EXCEPT ![s] =
                            [pc |-> IF /\ Len(jobQueue) > queueSize \div 2
                                       /\ activeWorkers < maxWorkers
                                    THEN "spawn" ELSE "send",
                             job |-> accepted + 1]]
    /\ UNCHANGED <<started, activeWorkers, wk, spawned, jobQueue, downVars, engineVars,
                   sendVars, executed>>

\* pool.go Submit, line 129
SubmitSpawn(s) ==
    /\ ~Crashed
    /\ caller[s].pc = "spawn"
    /\ startWorker(1)
    /\ caller' = [caller EXCEPT ![s].pc = "send"]
    /\ ret' = NoRet
    /\ UNCHANGED <<started, jobQueue, accepted, downVars, engineVars,
                   sendVars, executed>>

\* a send that buffers the job twice
SubmitSendTwice(s) ==
    /\ ~Crashed
    /\ caller[s].pc = "send"
    /\ ~closed
    /\ Len(jobQueue) < queueSize
    /\ jobQueue' = Append(Append(jobQueue, caller[s].job), caller[s].job)
    /\ caller' = [caller EXCEPT ![s] = [pc |-> "idle", job |-> NoJob]]
    /\ ret' = [caller |-> s, job |-> caller[s].job, err |-> NoErr]
    /\ UNCHANGED <<started, activeWorkers, wk, spawned, accepted, downVars, engineVars,
                   sendVars, executed>>

\* pool.go Submit, lines 135-137: the queue has room and takes the job
SubmitSend(s) ==
    /\ ~Crashed
    /\ caller[s].pc = "send"
    /\ ~closed
    /\ Len(jobQueue) < queueSize
    /\ jobQueue' = Append(jobQueue, caller[s].job)
    /\ caller' = [caller EXCEPT ![s] = [pc |-> "idle", job |-> NoJob]]
    /\ ret' = [caller |-> s, job |-> caller[s].job, err |-> NoErr]
    /\ UNCHANGED <<started, activeWorkers, wk, spawned, accepted, downVars, engineVars,
                   sendVars, executed>>

\* pool.go Submit, lines 138-139: the queue has been full for five seconds
SubmitTimeout(s) ==
    /\ ~Crashed
    /\ caller[s].pc = "send"
    /\ ~closed
    /\ Len(jobQueue) = queueSize
    /\ caller' = [caller EXCEPT ![s] = [pc |-> "idle", job |-> NoJob]]
    /\ ret' = [caller |-> s, job |-> caller[s].job, err |-> ErrQueueFull]
    /\ UNCHANGED <<started, activeWorkers, wk, spawned, jobQueue, accepted, downVars, engineVars,
                   sendVars, executed>>

\* pool.go Submit, line 136: the send finds the queue closed and panics
SubmitClosed(s) ==
    /\ ~Crashed
    /\ caller[s].pc = "send"
    /\ closed
    /\ caller' = [caller EXCEPT ![s].pc = "panic"]
    /\ ret' = NoRet
    /\ UNCHANGED <<started, activeWorkers, wk, spawned, jobQueue, accepted, downVars, engineVars,
                   sendVars, executed>>

\* pool.go lines 78-80: a worker finds the context cancelled and returns
WorkerCancelled(w) ==
    /\ ~Crashed
    /\ wk[w] = "select"
    /\ ctxDone
    /\ wk' = [wk EXCEPT ![w] = "leaving"]
    /\ ret' = NoRet
    /\ UNCHANGED <<started, activeWorkers, spawned, jobQueue, accepted, caller, downVars, engineVars,
                   sendVars, executed>>

\* pool.go lines 82-92: the queue is closed and drained, the receive yields the
\* zero Job and the call of its nil Task panics
TakeClosed(w) ==
    /\ ~Crashed
    /\ wk[w] = "select"
    /\ closed /\ jobQueue = <<>>
    /\ wk' = [wk EXCEPT ![w] = "panic"]
    /\ executed' = executed \cup {NoJob}
    /\ ret' = NoRet
    /\ UNCHANGED <<started, activeWorkers, spawned, jobQueue, accepted, caller, downVars, engineVars,
                   sendVars>>

\* pool.go Shutdown, lines 151-154: wp.cancel()
PoolShutdown ==
    /\ ~Crashed
    /\ started /\ sd = "idle"
    /\ ctxDone' = TRUE
    /\ sd' = "cancelled"
    /\ ret' = NoRet
    /\ UNCHANGED <<started, activeWorkers, wk, spawned, jobQueue, accepted, caller, closed, engineVars,
                   sendVars, executed>>

\* pool.go Shutdown, lines 156-162: close(wp.jobQueue), then the wait begins
PoolCloseQueue ==
    /\ ~Crashed
    /\ sd = "cancelled"
    /\ closed' = TRUE
    /\ sd' = "waiting"
    /\ ret' = NoRet
    /\ UNCHANGED <<started, activeWorkers, wk, spawned, jobQueue, accepted, caller, ctxDone, engineVars,
                   sendVars, executed>>

\* pool.go Shutdown, lines 164-166: wg.Wait() has returned, every worker has
\* run its deferred wg.Done()
PoolShutdownDone ==
    /\ ~Crashed
    /\ sd = "waiting"
    /\ LiveWorkers = {}
    /\ sd' = "graceful"
    /\ ret' = NoRet
    /\ UNCHANGED <<started, activeWorkers, wk, spawned, jobQueue, accepted, caller, ctxDone, closed, engineVars,
                   sendVars, executed>>

\* pool.go Shutdown, lines 167-168: ten seconds have passed and a worker is
\* still alive
PoolShutdownTimeout ==
    /\ ~Crashed
    /\ sd = "waiting"
    /\ LiveWorkers # {}
    /\ sd' = "timeout"
    /\ ret' = NoRet
    /\ UNCHANGED <<started, activeWorkers, wk, spawned, jobQueue, accepted, caller, ctxDone, closed, engineVars,
                   sendVars, executed>>

\* pool.go lines 82-90: a worker receives the oldest job and resets its timer
TakeJob(w) ==
    /\ ~Crashed
    /\ wk[w] = "select"
    /\ jobQueue # <<>>
    /\ jobQueue' = Tail(jobQueue)
    /\ wk' = [wk EXCEPT ![w] = "job"]
    /\ executed' = executed \cup {Head(jobQueue)}
    /\ ret' = NoRet
    /\ UNCHANGED <<started, activeWorkers, spawned, accepted, caller, downVars, engineVars,
                   sendVars>>

\* pool.go lines 92-96: job.Task() returns
JobDone(w) ==
    /\ ~Crashed
    /\ wk[w] = "job"
    /\ wk' = [wk EXCEPT ![w] = "select"]
    /\ ret' = NoRet
    /\ UNCHANGED <<started, activeWorkers, spawned, jobQueue, accepted, caller, downVars, engineVars,
                   sendVars, executed>>

\* pool.go lines 98-110: the idle timer fires; under workersMu the counter is
\* compared with workers, the mutex is released, and the worker returns or
\* resets its timer
IdleTimeout(w) ==
    /\ ~Crashed
    /\ wk[w] = "select"
    /\ wk' = [wk EXCEPT ![w] = IF activeWorkers > workers THEN "leaving" ELSE @]
    /\ ret' = NoRet
    /\ UNCHANGED <<started, activeWorkers, spawned, jobQueue, accepted, caller, downVars, engineVars,
                   sendVars, executed>>

\* pool.go lines 65-69: the deferred function of a worker that has returned
\* takes workersMu again and lowers the counter
WorkerExit(w) ==
    /\ ~Crashed
    /\ wk[w] = "leaving"
    /\ activeWorkers' = activeWorkers - 1
    /\ wk' = [wk EXCEPT ![w] = "gone"]
    /\ ret' = NoRet
    /\ UNCHANGED <<started, spawned, jobQueue, accepted, caller, downVars, engineVars,
                   sendVars, executed>>

(* ------------------------------------------------------------------ *)
(* The engine, one specification per part of it                        *)
(* ------------------------------------------------------------------ *)
\* connections, LOGIN, the session registry and its sweeper
Next ==
    \/ \E c \in Peers : Accept(c, "ip1")
    \/ \E c \in Peers : ReadFails(c)
    \/ \E c \in Peers : HandlerExit(c)
    \/ \E c \in Peers : handleQuit(c)
    \/ \E c \in Peers, u \in Names, p \in Passwords : handleLogin(c, u, p)
    \/ \E c \in Peers : LoginCheck(c)
    \/ \E c \in Peers : LoginSession(c)
    \/ \E c \in Peers : LoginAdd(c)
    \/ TTLElapses
    \/ Sweep

Spec == Init /\ [][Next]_vars

\* the registry and its sweeper under the logins of one account
NextSweep ==
    \/ \E c \in Peers : Accept(c, "ip1")
    \/ \E c \in Peers : ReadFails(c)
    \/ \E c \in Peers : HandlerExit(c)
    \/ \E c \in Peers : handleLogin(c, "alice", "p1")
    \/ \E c \in Peers : LoginCheck(c)
    \/ \E c \in Peers : LoginSession(c)
    \/ \E c \in Peers : LoginAdd(c)
    \/ TTLElapses
    \/ Sweep

SpecSweep == InitRooms /\ [][NextSweep]_vars

\* every operation of the session registry: logins of one account on both
\* connections, the ends of the handlers, the clock, the sweeper,
\* DestroyUserSessions and UpdateActivity
NextRegistry ==
    \/ \E c \in Peers : Accept(c, "ip1")
    \/ \E c \in Peers : ReadFails(c)
    \/ \E c \in Peers : HandlerExit(c)
    \/ \E c \in Peers : handleLogin(c, "alice", "p1")
    \/ \E c \in Peers : LoginCheck(c)
    \/ \E c \in Peers : LoginSession(c)
    \/ \E c \in Peers : LoginAdd(c)
    \/ TTLElapses
    \/ Sweep
    \/ \E u \in Names : DestroyUserSessions(u)
    \/ \E sid \in Sids : UpdateActivity(sid)

SpecRegistry == InitRooms /\ [][NextRegistry]_vars

\* commands that fail: alice on c1 with any password, the operator on c2
NextErr ==
    \/ \E c \in Peers : Accept(c, "ip1")
    \/ \E c \in Peers : ReadFails(c)
    \/ \E c \in Peers : HandlerExit(c)
    \/ \E c \in Peers, u \in Names : handleRegister(c, u, "p1")
    \/ \E c \in Peers : handleUnknown(c)
    \/ \E c \in Peers, cmd \in ArgCmds : handleShort(c, cmd)
    \/ \E c \in Peers : handleAdminUnknown(c)
    \/ \E p \in Passwords : handleLogin("c1", "alice", p)
    \/ handleLogin("c2", "eve", "p1")
    \/ \E c \in Peers : LoginCheck(c)
    \/ \E c \in Peers : LoginSession(c)
    \/ \E c \in Peers : LoginAdd(c)
    \/ \E r \in Rooms : handleJoin("c1", r)
    \/ \E c \in Peers : JoinCreate(c)
    \/ \E c \in Peers : JoinOwner(c)
    \/ JoinLocal("c1")
    \/ \E c \in Peers, r \in Rooms : handlePart(c, r)
    \/ \E c \in Peers : PartRemove(c)
    \/ \E c \in Peers : PartLocal(c)
    \/ \E c \in Peers, t \in Rooms \cup Names : handlePrivMsg(c, t)
    \/ \E sub \in AdminSubs \cup OperatorSubs \cup ReportSubs, t \in {"eve", Stranger} :
            handleAdminCommand("c1", sub, t, "0")
    \/ handleAdminCommand("c1", "ban", "eve", "bad")
    \/ \E sub \in {"kick", "removeadmin", "unlock"}, t \in {"eve", Stranger} :
            handleAdminCommand("c2", sub, t, "0")

SpecErr == InitRooms /\ [][NextErr]_vars

\* ADMIN log over a table with a row without details
NextPanic ==
    \/ \E c \in Peers : Accept(c, "ip1")
    \/ \E c \in Peers : ReadFails(c)
    \/ \E c \in Peers : HandlerExit(c)
    \/ \E c \in Peers : handlePing(c)
    \/ \E c \in Peers, u \in Names : handleLogin(c, u, "p1")
    \/ \E c \in Peers : LoginCheck(c)
    \/ \E c \in Peers : LoginSession(c)
    \/ \E c \in Peers : LoginAdd(c)
    \/ \E c \in Peers, sub \in {"stats", "log"} : handleAdminCommand(c, sub, "eve", "0")
    \/ \E c \in Peers : handleAdminLogPanic(c)

SpecPanic == InitNullLog /\ [][NextPanic]_vars

\* direct messages between the two accounts, with logins and closes
NextDirect ==
    \/ \E c \in Peers : Accept(c, "ip1")
    \/ \E c \in Peers : ReadFails(c)
    \/ \E c \in Peers : HandlerExit(c)
    \/ \E c \in Peers : handleQuit(c)
    \/ handleLogin("c1", "alice", "p1")
    \/ \E u \in Names : handleLogin("c2", u, "p1")
    \/ \E c \in Peers : LoginCheck(c)
    \/ \E c \in Peers : LoginSession(c)
    \/ \E c \in Peers : LoginAdd(c)
    \/ \E c \in Peers, t \in Names : handlePrivMsg(c, t)

SpecDirect == InitRooms /\ [][NextDirect]_vars

\* connections, LOGIN and Shutdown
NextShutdown ==
    \/ \E c \in Peers : Accept(c, "ip1")
    \/ \E c \in Peers : ReadFails(c)
    \/ \E c \in Peers : HandlerExit(c)
    \/ \E c \in Peers : handleQuit(c)
    \/ \E c \in Peers, u \in Names, p \in Passwords : handleLogin(c, u, p)
    \/ \E c \in Peers : LoginCheck(c)
    \/ \E c \in Peers : LoginSession(c)
    \/ \E c \in Peers : LoginAdd(c)
    \/ ShutdownBegin
    \/ ShutdownNext

SpecShutdown == Init /\ [][NextShutdown]_vars

\* every command of processCommand on both connections; the operator logs in
\* on c1
NextCmd ==
    \/ \E c \in Peers : Accept(c, "ip1")
    \/ \E c \in Peers : ReadFails(c)
    \/ \E c \in Peers : HandlerExit(c)
    \/ \E c \in Peers, u \in Names : handleRegister(c, u, "p1")
    \/ \E c \in Peers : RegisterCreate(c)
    \/ \E c \in Peers : handlePing(c)
    \/ \E c \in Peers : handlePong(c)
    \/ \E c \in Peers : handleUnknown(c)
    \/ \E c \in Peers : handleKeyExchange(c)
    \/ \E c \in Peers : handleQuit(c)
    \/ handleLogin("c1", "eve", "p1")
    \/ \E c \in Peers : LoginCheck(c)
    \/ \E c \in Peers : LoginSession(c)
    \/ \E c \in Peers : LoginAdd(c)
    \/ \E c \in Peers, r \in Rooms : handleJoin(c, r)
    \/ \E c \in Peers : JoinCreate(c)
    \/ \E c \in Peers : JoinOwner(c)
    \/ \E c \in Peers : JoinAdd(c)
    \/ \E c \in Peers : JoinLocal(c)
    \/ \E c \in Peers, r \in Rooms : handlePart(c, r)
    \/ \E c \in Peers : PartRemove(c)
    \/ \E c \in Peers : PartLocal(c)
    \/ \E c \in Peers, t \in Rooms \cup Names : handlePrivMsg(c, t)
    \/ \E c \in Peers, sub \in AdminSubs \cup OperatorSubs \cup ReportSubs, t \in Names :
            handleAdminCommand(c, sub, t, "0")
    \/ \E c \in Peers : SetAdminStatus(c)
    \/ \E c \in Peers : BanDeactivate(c)
    \/ \E c \in Peers : UnbanActivate(c)

SpecCmd == InitCmd /\ [][NextCmd]_vars

\* REGISTER and LOGIN of both names with both passwords on both connections
NextReg ==
    \/ \E c \in Peers : Accept(c, "ip1")
    \/ \E c \in Peers, u \in Names, p \in Passwords : handleRegister(c, u, p)
    \/ \E c \in Peers : RegisterCreate(c)
    \/ \E c \in Peers, u \in Names, p \in Passwords : handleLogin(c, u, p)
    \/ \E c \in Peers : LoginCheck(c)
    \/ \E c \in Peers : LoginSession(c)
    \/ \E c \in Peers : LoginAdd(c)

SpecReg == InitCmd /\ [][NextReg]_vars

(* ------------------------------------------------------------------ *)
(* The write path of one connection: client.go Send                    *)
(* ------------------------------------------------------------------ *)
\* message + "\r\n": the bytes of line i, the message and its terminator
LineBytes(i) == <<[line |-> i, part |-> "msg"], [line |-> i, part |-> "crlf"]>>

\* a goroutine calls Send with the next line
SendCall(g) ==
    /\ snd[g].pc = "idle"
    /\ Len(calls) < MaxLines
    /\ calls' = Append(calls, returned)
    /\ snd' = [snd EXCEPT ![g] = [pc |-> "lock", line |-> Len(calls) + 1, at |-> 0]]
    /\ UNCHANGED <<writerMu, writer, peer, returned, engineVars, poolVars>>

\* a Send that goes on without holding the mutex
SendLockFree(g) ==
    /\ snd[g].pc = "lock"
    /\ writerMu' = g
    /\ snd' = [snd EXCEPT ![g].pc = "write"]
    /\ UNCHANGED <<writer, peer, calls, returned, engineVars, poolVars>>

\* client.go line 130: c.writerMu.Lock()
SendLock(g) ==
    /\ snd[g].pc = "lock"
    /\ writerMu = "free"
    /\ writerMu' = g
    /\ snd' = [snd EXCEPT ![g].pc = "write"]
    /\ UNCHANGED <<writer, peer, calls, returned, engineVars, poolVars>>

\* client.go lines 133-136: WriteString copies the bytes into the buffer one
\* after the other; with the sticky error set it fails and Send returns
SendWrite(g) ==
    /\ snd[g].pc = "write"
    /\ IF writer.err
       THEN /\ snd' = [snd EXCEPT ![g].pc = "unlock"]
            /\ UNCHANGED writer
       ELSE /\ writer' = [writer EXCEPT
                             !.buf = Append(@, LineBytes(snd[g].line)[snd[g].at + 1])]
            /\ snd' = [snd EXCEPT ![g].at = @ + 1,
                                  ![g].pc = IF snd[g].at + 1 = Len(LineBytes(snd[g].line))
                                            THEN "flush" ELSE "write"]
    /\ UNCHANGED <<writerMu, peer, calls, returned, engineVars, poolVars>>

\* client.go lines 138-140, bufio Flush: the buffer goes to the transport; a
\* failed write passes a part of it, keeps the rest and sets the sticky error
SendFlush(g) ==
    /\ snd[g].pc = "flush"
    /\ \/ /\ peer' = peer \o writer.buf
          /\ writer' = [writer EXCEPT !.buf = <<>>]
       \/ \E k \in 0..(Len(writer.buf) - 1) :
            /\ peer' = peer \o SubSeq(writer.buf, 1, k)
            /\ writer' = [buf |-> SubSeq(writer.buf, k + 1, Len(writer.buf)), err |-> TRUE]
    /\ snd' = [snd EXCEPT ![g].pc = "unlock"]
    /\ UNCHANGED <<writerMu, calls, returned, engineVars, poolVars>>

\* client.go line 131: the deferred c.writerMu.Unlock(), and the return of Send
SendUnlock(g) ==
    /\ snd[g].pc = "unlock"
    /\ writerMu' = "free"
    /\ returned' = returned \cup {snd[g].line}
    /\ snd' = [snd EXCEPT ![g] = [pc |-> "idle", line |-> 0, at |-> 0]]
    /\ UNCHANGED <<writer, peer, calls, engineVars, poolVars>>

NextSend ==
    \/ \E g \in Senders : SendCall(g)
    \/ \E g \in Senders : SendLock(g)
    \/ \E g \in Senders : SendWrite(g)
    \/ \E g \in Senders : SendFlush(g)
    \/ \E g \in Senders : SendUnlock(g)

SpecSend == InitRooms /\ [][NextSend]_vars

\* LOGIN, JOIN and PART of both accounts on both connections
NextRooms ==
    \/ \E c \in Peers : Accept(c, "ip1")
    \/ \E c \in Peers : ReadFails(c)
    \/ \E c \in Peers : HandlerExit(c)
    \/ \E c \in Peers, u \in Names : handleLogin(c, u, "p1")
    \/ \E c \in Peers : LoginCheck(c)
    \/ \E c \in Peers : LoginSession(c)
    \/ \E c \in Peers : LoginAdd(c)
    \/ \E c \in Peers, r \in Rooms : handleJoin(c, r)
    \/ \E c \in Peers : JoinCreate(c)
    \/ \E c \in Peers : JoinOwner(c)
    \/ \E c \in Peers : JoinAdd(c)
    \/ \E c \in Peers : JoinLocal(c)
    \/ \E c \in Peers, r \in Rooms : handlePart(c, r)
    \/ \E c \in Peers : PartRemove(c)
    \/ \E c \in Peers : PartLocal(c)

SpecRooms == InitRooms /\ [][NextRooms]_vars

\* LOGIN of one account on both connections, the IP tracking service enabled
NextTrack ==
    \/ \E c \in Peers, ip \in Addrs : Accept(c, ip)
    \/ \E c \in Peers : ReadFails(c)
    \/ \E c \in Peers : HandlerExit(c)
    \/ \E c \in Peers, p \in Passwords : handleLogin(c, "alice", p)
    \/ \E c \in Peers : LoginCheck(c)
    \/ \E c \in Peers : LoginSetIP(c)
    \/ \E c \in Peers : LoginIncUpdate(c)
    \/ \E c \in Peers : LoginIncSelect(c)
    \/ \E c \in Peers : LoginLock(c)
    \/ \E c \in Peers : LoginSession(c)
    \/ \E c \in Peers : LoginAdd(c)

SpecTrack == InitTrack /\ [][NextTrack]_vars

\* the tracking service and the operator's unlock: alice connects on c1 from
\* any address, the operator eve on c2 from one address
NextUnlock ==
    \/ \E ip \in Addrs : Accept("c1", ip)
    \/ Accept("c2", "ip1")
    \/ \E c \in Peers : ReadFails(c)
    \/ \E c \in Peers : HandlerExit(c)
    \/ \E p \in Passwords : handleLogin("c1", "alice", p)
    \/ handleLogin("c2", "eve", "p1")
    \/ \E c \in Peers : LoginCheck(c)
    \/ \E c \in Peers : LoginSetIP(c)
    \/ \E c \in Peers : LoginIncUpdate(c)
    \/ \E c \in Peers : LoginIncSelect(c)
    \/ \E c \in Peers : LoginLock(c)
    \/ \E c \in Peers : LoginSession(c)
    \/ \E c \in Peers : LoginAdd(c)
    \/ \E c \in Peers, t \in Names : handleAdminCommand(c, "unlock", t, "0")

SpecUnlock == InitTrack /\ [][NextUnlock]_vars

\* LOGIN, JOIN and PRIVMSG to a room: alice on c1, either account on c2
NextMsg ==
    \/ \E c \in Peers : Accept(c, "ip1")
    \/ \E c \in Peers : ReadFails(c)
    \/ \E c \in Peers : HandlerExit(c)
    \/ handleLogin("c1", "alice", "p1")
    \/ \E u \in Names : handleLogin("c2", u, "p1")
    \/ \E c \in Peers : LoginCheck(c)
    \/ \E c \in Peers : LoginSession(c)
    \/ \E c \in Peers : LoginAdd(c)
    \/ \E c \in Peers, r \in Rooms : handleJoin(c, r)
    \/ \E c \in Peers : JoinCreate(c)
    \/ \E c \in Peers : JoinOwner(c)
    \/ \E c \in Peers : JoinAdd(c)
    \/ \E c \in Peers : JoinLocal(c)
    \/ \E c \in Peers, r \in Rooms : handlePrivMsg(c, r)

SpecMsg == InitRooms /\ [][NextMsg]_vars

\* the events that close a connection: QUIT, a failed read, kick and ban by the
\* operator; alice on c1, the operator eve on c2
NextClose ==
    \/ \E c \in Peers : Accept(c, "ip1")
    \/ \E c \in Peers : ReadFails(c)
    \/ \E c \in Peers : HandlerExit(c)
    \/ \E c \in Peers : handleQuit(c)
    \/ handleLogin("c1", "alice", "p1")
    \/ handleLogin("c2", "eve", "p1")
    \/ \E c \in Peers : LoginCheck(c)
    \/ \E c \in Peers : LoginSession(c)
    \/ \E c \in Peers : LoginAdd(c)
    \/ \E c \in Peers, sub \in {"kick", "ban"} : handleAdminCommand(c, sub, "alice", "0")
    \/ \E c \in Peers : BanDeactivate(c)
    \/ \E c \in Peers : AsyncDisconnect(c)

SpecClose == InitRooms /\ [][NextClose]_vars

\* peers that send several lines in one segment: QUIT, LOGIN and JOIN behind
\* one another
NextQuit ==
    \/ \E c \in Peers : Accept(c, "ip1")
    \/ \E c \in Peers, n \in 1..MaxBuffered : ReadAhead(c, n)
    \/ \E c \in Peers : ReadFails(c)
    \/ \E c \in Peers : HandlerExit(c)
    \/ \E c \in Peers : handleQuit(c)
    \/ \E c \in Peers : handleLogin(c, "alice", "p1")
    \/ \E c \in Peers : LoginCheck(c)
    \/ \E c \in Peers : LoginSession(c)
    \/ \E c \in Peers : LoginAdd(c)
    \/ \E c \in Peers, r \in Rooms : handleJoin(c, r)
    \/ \E c \in Peers : JoinCreate(c)
    \/ \E c \in Peers : JoinOwner(c)
    \/ \E c \in Peers : JoinLocal(c)

SpecQuit == InitRooms /\ [][NextQuit]_vars

\* kick: alice on c1 and on c3, the operator eve on c2
NextKick ==
    \/ \E c \in Conns : Accept(c, "ip1")
    \/ \E c \in Conns : ReadFails(c)
    \/ \E c \in Conns : HandlerExit(c)
    \/ \E c \in {"c1", "c3"} : handleLogin(c, "alice", "p1")
    \/ handleLogin("c2", "eve", "p1")
    \/ \E c \in Conns : LoginCheck(c)
    \/ \E c \in Conns : LoginSession(c)
    \/ \E c \in Conns : LoginAdd(c)
    \/ \E t \in Names : handleAdminCommand("c2", "kick", t, "0")
    \/ \E c \in Conns : AsyncDisconnect(c)

SpecKick == InitRooms /\ [][NextKick]_vars

\* every ADMIN subcommand with every kind of argument, sent by alice
NextDenied ==
    \/ \E c \in Peers : Accept(c, "ip1")
    \/ \E c \in Peers : ReadFails(c)
    \/ \E c \in Peers : HandlerExit(c)
    \/ \E c \in Peers : handleLogin(c, "alice", "p1")
    \/ \E c \in Peers : LoginCheck(c)
    \/ \E c \in Peers : LoginSession(c)
    \/ \E c \in Peers : LoginAdd(c)
    \/ \E c \in Peers, sub \in AdminSubs \cup OperatorSubs \cup ReportSubs,
           t \in Names \cup {Stranger}, d \in Durations : handleAdminCommand(c, sub, t, d)

SpecDenied == InitRooms /\ [][NextDenied]_vars

\* kick, ban and makeadmin: alice on c1, the operator eve on c2
NextOperator ==
    \/ \E c \in Peers : Accept(c, "ip1")
    \/ \E c \in Peers : ReadFails(c)
    \/ \E c \in Peers : HandlerExit(c)
    \/ handleLogin("c1", "alice", "p1")
    \/ handleLogin("c2", "eve", "p1")
    \/ \E c \in Peers : LoginCheck(c)
    \/ \E c \in Peers : LoginSession(c)
    \/ \E c \in Peers : LoginAdd(c)
    \/ \E c \in Peers, sub \in {"kick", "ban", "makeadmin"}, t \in Names :
            handleAdminCommand(c, sub, t, "0")
    \/ \E c \in Peers : SetAdminStatus(c)
    \/ \E c \in Peers : BanDeactivate(c)
    \/ \E c \in Peers : AsyncDisconnect(c)

SpecOperator == InitRooms /\ [][NextOperator]_vars

\* makeadmin and removeadmin, of an account or of a name with no row: alice on
\* c1, the operator eve on c2
NextDemote ==
    \/ \E c \in Peers : Accept(c, "ip1")
    \/ \E c \in Peers : ReadFails(c)
    \/ \E c \in Peers : HandlerExit(c)
    \/ handleLogin("c1", "alice", "p1")
    \/ handleLogin("c2", "eve", "p1")
    \/ \E c \in Peers : LoginCheck(c)
    \/ \E c \in Peers : LoginSession(c)
    \/ \E c \in Peers : LoginAdd(c)
    \/ \E c \in Peers, sub \in OperatorSubs, t \in Names \cup {Stranger} :
            handleAdminCommand(c, sub, t, "0")
    \/ \E c \in Peers : SetAdminStatus(c)

SpecDemote == InitRooms /\ [][NextDemote]_vars

\* ban and unban of alice by the operator eve on c2, LOGIN of alice on c1
NextBan ==
    \/ \E c \in Peers : Accept(c, "ip1")
    \/ \E c \in Peers : ReadFails(c)
    \/ \E c \in Peers : HandlerExit(c)
    \/ \E p \in Passwords : handleLogin("c1", "alice", p)
    \/ handleLogin("c2", "eve", "p1")
    \/ \E c \in Peers : LoginCheck(c)
    \/ \E c \in Peers : LoginSession(c)
    \/ \E c \in Peers : LoginAdd(c)
    \/ \E sub \in {"ban", "unban"}, d \in Durations : handleAdminCommand("c2", sub, "alice", d)
    \/ \E c \in Peers : BanDeactivate(c)
    \/ \E c \in Peers : UnbanActivate(c)
    \/ \E c \in Peers : AsyncDisconnect(c)

SpecBan == InitRooms /\ [][NextBan]_vars

\* the worker pool: Start, the calls of Submit of one goroutine, the workers
\* and their idle timeouts
NextPool ==
    \/ Start
    \/ \E s \in {"s1"} : Submit(s)
    \/ \E s \in {"s1"} : SubmitSpawn(s)
    \/ \E s \in {"s1"} : SubmitSend(s)
    \/ \E s \in {"s1"} : SubmitTimeout(s)
    \/ \E w \in Goroutines : TakeJob(w)
    \/ \E w \in Goroutines : JobDone(w)
    \/ \E w \in Goroutines : IdleTimeout(w)
    \/ \E w \in Goroutines : WorkerExit(w)

SpecPool == InitRooms /\ [][NextPool]_vars

\* the queue of the pool: concurrent calls of Submit, workers that take and
\* run jobs and never leave
NextQueue ==
    \/ Start
    \/ \E s \in Submitters : Submit(s)
    \/ \E s \in Submitters : SubmitSpawn(s)
    \/ \E s \in Submitters : SubmitSend(s)
    \/ \E s \in Submitters : SubmitTimeout(s)
    \/ \E w \in Goroutines : TakeJob(w)
    \/ \E w \in Goroutines : JobDone(w)

SpecQueue == InitRooms /\ [][NextQueue]_vars

\* the worker pool and its Shutdown, with the calls of Submit of one goroutine
NextPoolDown ==
    \/ Start
    \/ \E s \in {"s1"} : Submit(s)
    \/ \E s \in {"s1"} : SubmitSpawn(s)
    \/ \E s \in {"s1"} : SubmitSend(s)
    \/ \E s \in {"s1"} : SubmitClosed(s)
    \/ \E w \in Goroutines : TakeJob(w)
    \/ \E w \in Goroutines : JobDone(w)
    \/ \E w \in Goroutines : WorkerCancelled(w)
    \/ \E w \in Goroutines : TakeClosed(w)
    \/ \E w \in Goroutines : WorkerExit(w)
    \/ PoolShutdown
    \/ PoolCloseQueue
    \/ PoolShutdownDone
    \/ PoolShutdownTimeout

SpecPoolDown == InitRooms /\ [][NextPoolDown]_vars

(* ------------------------------------------------------------------ *)
(* Properties                                                          *)
(* ------------------------------------------------------------------ *)
\* the fields of c are those of a login and its close path has not run
Online(c) == cst[c] = "open" /\ authenticated[c] /\ once[c] = "new"

\* c has completed a successful LOGIN: AddClient has indexed it under its session id
LoggedIn(c) == Online(c) /\ SessionID[c] \in DOMAIN clients /\ clients[SessionID[c]] = c

\* C1: every connection that completed a successful LOGIN and whose close path
\* has not run has its session in the registry under its session id, with the
\* connection's account
C1_LiveSessionRegistered ==
    \A c \in Conns :
        LoggedIn(c) => /\ SessionID[c] \in DOMAIN sessions
                       /\ sessions[SessionID[c]].user = cuser[c]

\* C1: a connection still online whose session the sweeper removed
C1_SweptWhileOnline ==
    \E c \in Conns :
        /\ LoggedIn(c) /\ pc[c] = "idle"
        /\ SessionID[c] \notin DOMAIN sessions

\* C3: a LOGIN received on an authenticated connection goes no further than its
\* rejection, and the session id of an authenticated connection never changes
C3_SecondLoginRejected ==
    [][\A c \in Conns :
          /\ (authenticated[c] /\ pc[c] = "idle") => pc'[c] # "login_check"
          /\ (authenticated[c] /\ authenticated'[c] /\ cst'[c] = "open")
                => SessionID'[c] = SessionID[c]]_vars

\* C3: a connection with two sessions of its own in the registry and two keys
\* in the connection index
C3_TwoSessionsOneConnection ==
    \E c \in Conns, s \in DOMAIN clients :
        /\ LoggedIn(c) /\ pc[c] = "idle"
        /\ clients[s] = c /\ s # SessionID[c]
        /\ s \in DOMAIN sessions /\ SessionID[c] \in DOMAIN sessions

\* C5: no session exists, and no connection is authenticated, for an account
\* whose security row has locked = true
C5_NoSessionForLockedAccount ==
    /\ \A s \in DOMAIN sessions : ~sec[sessions[s].user].locked
    /\ \A c \in Conns : authenticated[c] => ~sec[cuser[c]].locked

\* C5: tracking disabled, the locked account holds a session and is logged in
C5_LockedAccountLoggedIn ==
    \E c \in Conns :
        /\ ~enableTracking /\ LoggedIn(c) /\ pc[c] = "idle"
        /\ sec[cuser[c]].locked
        /\ SessionID[c] \in DOMAIN sessions
        /\ reply = [conn |-> c, cmd |-> "LOGIN", err |-> NoErr]

\* Shutdown is in its loop over the connection index or waiting for the handlers
ShuttingDown == shut.pc \in {"loop", "wait"}

\* C2: Shutdown never blocks: while it runs it can take its next step, and every
\* connection it has sent 'ERROR :Server shutting down' to has had its close path
\* run when the loop is over
C2_ShutdownTerminates ==
    /\ ShuttingDown => ENABLED ShutdownNext
    /\ shut.pc \in {"wait", "done"} => \A c \in shut.sent : once[c] = "done"

\* C2: Shutdown inside the Disconnect of a logged-in connection, waiting for the
\* lock it holds itself
C2_ShutdownBlocked ==
    /\ shut.pc = "loop" /\ shut.cur # 0 /\ clientsMu = "shutdown"
    /\ once[clients[shut.cur]] = "running" /\ onceBy[clients[shut.cur]] = "shutdown"
    /\ authenticated[clients[shut.cur]]

\* the commands a connection may use before a LOGIN has completed
OpenCommands == {"REGISTER", "LOGIN", "KEYEXCHANGE", "PING", "QUIT"}

\* the step completes a command of c, received while c was not authenticated
CompletesUnauth(c) == reply'.conn = c /\ ~authenticated[c]

\* the step changes no membership, joined set, registry, index or store state
NothingChanges ==
    UNCHANGED <<users, sec, chans, members, bans, sessions, userSessions, clients,
                channels, authenticated, cuser, SessionID, asyncDisc>>

\* C4 as stated: before a LOGIN has completed, every command other than REGISTER,
\* LOGIN, KEYEXCHANGE, PING and QUIT returns an error and changes nothing
C4_OnlyOpenCommandsSucceed ==
    [][\A c \in Conns :
          (CompletesUnauth(c) /\ reply'.cmd \notin OpenCommands)
              => (reply'.err # NoErr /\ NothingChanges)]_vars

\* C4 amended: before a LOGIN has completed, every command other than REGISTER,
\* LOGIN, KEYEXCHANGE, PING, QUIT and PONG returns an error, PONG returns no
\* error, and all of them change nothing
C4_OnlyOpenCommandsAndPongSucceed ==
    [][\A c \in Conns :
          (CompletesUnauth(c) /\ reply'.cmd \notin OpenCommands)
              => /\ reply'.err = NoErr <=> reply'.cmd = "PONG"
                 /\ NothingChanges]_vars

\* C4: an unauthenticated connection got 'not authenticated' for a JOIN of a
\* room that exists
C4_JoinRefused ==
    /\ reply.conn \in Conns /\ reply.cmd = "JOIN" /\ reply.err = ErrNotAuthenticated
    /\ ~authenticated[reply.conn]
    /\ chans # {}

\* a handler of u between the UPDATE of the counter and the lock it may set
IncrementInFlight(u) ==
    \E c \in Conns : lcl[c].user = u /\ pc[c] \in {"login_sel", "login_lock"}

\* C6: an account is locked only with a counter above the threshold and a reason,
\* a counter above the threshold is locked as soon as the login that raised it
\* has finished, the first login counts nothing, and a login whose increment
\* returned n is refused and locks exactly when n exceeds the threshold,
\* otherwise it records its address as last-known and goes on to its session
C6_LockExactlyAboveThreshold ==
    /\ [](\A u \in Names :
            /\ sec[u].locked => (sec[u].count > MaxIPSuspicion /\ sec[u].reason # <<>>)
            /\ sec[u].count > MaxIPSuspicion => (sec[u].locked \/ IncrementInFlight(u))
            /\ sec[u].lastKnownIP = NoIP => sec[u].count = 0)
    /\ [][\A c \in Conns :
            /\ (pc[c] = "login_sel" /\ pc'[c] # "login_sel")
                => /\ pc'[c] = "login_lock" <=> lcl'[c].newCount > MaxIPSuspicion
                   /\ pc'[c] = "login_set_ip" <=> lcl'[c].newCount <= MaxIPSuspicion
            /\ (pc[c] = "login_set_ip" /\ pc'[c] # "login_set_ip")
                => /\ pc'[c] = "login_session"
                   /\ sec'[lcl[c].user].lastKnownIP = addr[c]
            /\ (pc[c] = "login_lock" /\ pc'[c] # "login_lock")
                => /\ sec'[lcl[c].user].locked
                   /\ reply' = [conn |-> c, cmd |-> "LOGIN",
                                err |-> LoginBlocked(ErrLockFired)]
                   /\ UNCHANGED <<sessions, SessionID>>]_vars

\* C6: the login of the 4th address change has just locked the account
C6_FourthChangeLocks ==
    \E c \in Conns, u \in Names :
        /\ reply = [conn |-> c, cmd |-> "LOGIN", err |-> LoginBlocked(ErrLockFired)]
        /\ sec[u].locked /\ sec[u].count = MaxIPSuspicion + 1
        /\ sec[u].reason = LockReasonText(MaxIPSuspicion + 1)
        /\ sec[u].lastKnownIP # addr[c]
        /\ pc[c] = "exit"

\* the LOGIN error of an account that is locked: the lock fired on this attempt,
\* or the row was locked when CheckIPAndTrack read it
RefusedLocked(e) ==
    \/ e = LoginBlocked(ErrLockFired)
    \/ /\ Len(e) >= Len(LoginBlocked(ErrAlreadyLocked(<<>>)))
       /\ SubSeq(e, 1, Len(LoginBlocked(ErrAlreadyLocked(<<>>))))
              = LoginBlocked(ErrAlreadyLocked(<<>>))

\* C7: a LOGIN refused because the account is locked sends an ERROR line with
\* the phrase 'account locked' and ends the read loop, so the connection closes
C7_LockedRefusalClosesConnection ==
    \A c \in Conns :
        (reply.conn = c /\ reply.cmd = "LOGIN" /\ RefusedLocked(reply.err))
            => /\ Contains(reply.err, <<"account", "locked">>)
               /\ pc[c] = "exit"

\* C7: a LOGIN refused for an account locked earlier, the connection still open
\* and reading commands
C7_RefusedButStillOpen ==
    \E c \in Conns :
        /\ reply.conn = c /\ reply.cmd = "LOGIN"
        /\ RefusedLocked(reply.err) /\ reply.err # LoginBlocked(ErrLockFired)
        /\ cst[c] = "open" /\ pc[c] = "idle"

\* the row UnlockAccount leaves
Cleared(row) ==
    /\ row.count = 0 /\ ~row.locked /\ row.reason = <<>>
    /\ ~row.lockedAt /\ row.lockedBy = NoUser

\* C8: a step that lowers the counter of an account is a successful unlock, and
\* a successful unlock leaves the counter of its target 0 and locked, reason,
\* timestamp and locking operator cleared, every other row as it was
C8_OnlyUnlockLowersCounter ==
    [][/\ \A u \in Names :
            sec'[u].count < sec[u].count
                => /\ reply'.cmd = "ADMIN" /\ reply'.err = NoErr
                   /\ Cleared(sec'[u])
       /\ (reply'.cmd = "ADMIN" /\ reply'.err = NoErr)
            => \E t \in Names :
                  /\ Cleared(sec'[t])
                  /\ sec'[t].lastKnownIP = sec[t].lastKnownIP
                  /\ \A u \in Names \ {t} : sec'[u] = sec[u]]_vars

\* C8: the operator has just unlocked the account while a login of it was
\* between its UPDATE, which had raised the counter above the threshold, and
\* its SELECT
C8_UnlockedAfterLock ==
    \E c \in Conns :
        /\ reply.cmd = "ADMIN" /\ reply.err = NoErr
        /\ pc[c] = "login_sel" /\ lcl[c].own = MaxIPSuspicion + 1
        /\ Cleared(sec[lcl[c].user])

\* C9: the value IncrementSuspicionCount returns to a login is the value its own
\* UPDATE produced
C9_IncrementReturnsOwnValue ==
    \A c \in Conns :
        pc[c] \in {"login_lock", "login_set_ip"} => lcl[c].newCount = lcl[c].own

\* C9: two logins whose UPDATEs produced k+1 and k+2 and that were both
\* returned k+2
C9_BothReturnedTheSame ==
    \E c, d \in Conns :
        /\ pc[c] \in {"login_lock", "login_set_ip"}
        /\ pc[d] \in {"login_lock", "login_set_ip"}
        /\ lcl[c].user = lcl[d].user
        /\ lcl[d].own = lcl[c].own + 1
        /\ lcl[c].newCount = lcl[d].own /\ lcl[d].newCount = lcl[d].own

\* C10: after a successful JOIN of r by c, r is in the joined set of c and the
\* account of c is a member of r in the store; after a successful PART of r by
\* c, neither
C10_JoinPartAgree ==
    [][\A c \in Conns :
          /\ (pc[c] = "join_local"
                /\ reply' = [conn |-> c, cmd |-> "JOIN", err |-> NoErr])
              => /\ lcl[c].room \in channels'[c]
                 /\ members'[lcl[c].room][cuser'[c]] # "none"
          /\ (pc[c] = "part_local"
                /\ reply' = [conn |-> c, cmd |-> "PART", err |-> NoErr])
              => /\ lcl[c].room \notin channels'[c]
                 /\ members'[lcl[c].room][cuser'[c]] = "none"]_vars

\* C10: a JOIN has just succeeded on c and the account of c is not a member
C10_JoinedButNotMember ==
    \E c \in Conns, r \in Rooms :
        /\ reply = [conn |-> c, cmd |-> "JOIN", err |-> NoErr]
        /\ r \in channels[c]
        /\ members[r][cuser[c]] = "none"

\* a step of the JOIN handler of c
JoinStep(c) ==
    /\ pc'[c] # pc[c]
    /\ \/ pc[c] \in {"join_add", "join_local"}
       \/ pc[c] = "idle" /\ pc'[c] \in {"join_add", "join_local"}

\* the room that JOIN names
JoinRoom(c) == IF pc[c] = "idle" THEN lcl'[c].room ELSE lcl[c].room

\* C11: a JOIN of a room that is already in the joined set of the connection,
\* by the account that is a member of it, changes neither the memberships nor
\* the joined sets and writes no line to any other connection
C11_SecondJoinIsNoOp ==
    [][\A c \in Conns :
          (JoinStep(c) /\ JoinRoom(c) \in channels[c]
                /\ IsMember(JoinRoom(c), cuser[c]))
              => /\ members' = members
                 /\ channels' = channels
                 /\ \A k \in Conns \ {c} : wire'[k] = <<>>]_vars

\* C11: a second JOIN of the room by c is about to broadcast its JOIN line, and
\* another connection that has joined the room is there to get it
C11_SecondJoinBroadcasts ==
    \E c, k \in Conns :
        /\ k # c
        /\ pc[c] = "join_local" /\ lcl[c].room \in channels[c]
        /\ IsMember(lcl[c].room, cuser[c])
        /\ LoggedIn(k) /\ lcl[c].room \in channels[k]
        /\ SessionID[k] # SessionID[c]

\* how many times a line is in what a step wrote to k
Copies(w, k, line) == Cardinality({i \in 1..Len(w[k]) : w[k][i] = line})

\* C12: a PRIVMSG to a room by a connection whose account is a member writes
\* exactly one PRIVMSG line to every live connection that has the room in its
\* joined set and exactly one to the sender; by an authenticated connection
\* whose account is not a member of the room, which exists, it fails with 'not a
\* member' and writes no PRIVMSG line to any connection
C12_OneLineToEveryJoined ==
    [][\A c \in Conns, r \in Rooms :
          (reply'.conn = c /\ reply'.cmd = "PRIVMSG" /\ authenticated[c] /\ r \in chans)
              => IF IsMember(r, cuser[c])
                 THEN /\ reply'.err = NoErr
                      /\ Copies(wire', c, PrivMsgLine(cuser[c], r)) = 1
                      /\ \A k \in Conns :
                            (Online(k) /\ r \in channels[k])
                                => Copies(wire', k, PrivMsgLine(cuser[c], r)) = 1
                 ELSE /\ reply'.err = ErrNotAMember
                      /\ \A k \in Conns : Copies(wire', k, PrivMsgLine(cuser[c], r)) = 0]_vars

\* C12: a connection that has joined the room has just been written the same
\* PRIVMSG line twice
C12_DeliveredTwice ==
    \E k \in Conns, r \in Rooms :
        /\ reply.conn \in Conns \ {k} /\ reply.cmd = "PRIVMSG" /\ reply.err = NoErr
        /\ Online(k) /\ r \in channels[k]
        /\ Copies(wire, k, PrivMsgLine(cuser[reply.conn], r)) = 2

\* C13: the close path of a connection runs once: when it has run, the index
\* holds no entry for the connection and the registry no session of it, and no
\* later step of the same connection runs it again or takes anything more out
\* of the index or the registry on its behalf
C13_ClosePathRunsOnce ==
    /\ [](\A c \in Conns :
            once[c] = "done"
                => /\ ~StillIndexed(c, clients)
                   /\ SessionID[c] \notin DOMAIN sessions)
    /\ [][\A c \in Conns :
            (once[c] = "done" /\ cst[c] = "open" /\ cst'[c] = "open")
                => /\ once'[c] = "done"
                   /\ \A s \in DOMAIN clients :
                         clients[s] = c => (s \in DOMAIN clients' /\ clients'[s] = c)]_vars

\* C13: the close path of c has run and the index still maps a session id to
\* c, with the session of that id in the registry
C13_ClosedButIndexed ==
    \E c \in Conns, s \in DOMAIN clients :
        /\ once[c] = "done" /\ c \notin asyncDisc
        /\ clients[s] = c /\ s \in DOMAIN sessions
        /\ sessions[s].user = cuser[c]

\* C14: once QUIT has run the close path of a connection, its handler
\* dispatches no further command: it completes none and starts none, and no
\* session, index entry, membership or joined room is made for the connection
C14_NothingDispatchedAfterQuit ==
    [][\A c \in Conns :
          (once[c] = "done" /\ cst[c] = "open" /\ pc[c] = "idle")
              => /\ reply'.conn # c
                 /\ pc'[c] \in {"idle", "exit"}
                 /\ UNCHANGED <<sessions, clients, members>>
                 /\ cst'[c] = "open" => channels'[c] = channels[c]]_vars

\* C14: a LOGIN that was in the scanner behind a QUIT has just succeeded on the
\* closed connection, which is indexed and has a session in the registry
C14_LoggedInAfterQuit ==
    \E c \in Conns :
        /\ once[c] = "done" /\ cst[c] = "open"
        /\ reply = [conn |-> c, cmd |-> "LOGIN", err |-> NoErr]
        /\ SessionID[c] \in DOMAIN sessions
        /\ SessionID[c] \in DOMAIN clients /\ clients[SessionID[c]] = c

\* the step is a successful kick of t: KickUser has logged it
KickOf(t) ==
    /\ reply'.cmd = "ADMIN" /\ reply'.err = NoErr
    /\ audit' = LogAction(cuser[reply'.conn], "kick", t)

\* C17: a successful kick of t writes the 'Kicked by admin' line to every live
\* connection logged in as t and starts its Disconnect, writes that line to no
\* other connection and disconnects no other; and when the Disconnect of a
\* kicked connection has run, the index holds no entry for that connection and
\* the registry no session of it
C17_KickDisconnectsTarget ==
    [][/\ \A t \in Names :
            KickOf(t)
                => \A k \in Conns :
                      /\ (LoggedIn(k) /\ cuser[k] = t)
                            => /\ Copies(wire', k, ExpelLine("kick")) = 1
                               /\ k \in asyncDisc'
                      /\ cuser[k] # t
                            => /\ Copies(wire', k, ExpelLine("kick")) = 0
                               /\ k \in asyncDisc' <=> k \in asyncDisc
       /\ \A k \in Conns :
            (k \in asyncDisc /\ k \notin asyncDisc')
                => /\ ~StillIndexed(k, clients')
                   /\ SessionID[k] \notin DOMAIN sessions']_vars

\* C17: the operator has just kicked alice, who is logged in on two
\* connections: one was sent the line and is being disconnected, the other was
\* sent nothing and stays
C17_OneOfTwoKicked ==
    \E k, j \in Conns :
        /\ k # j /\ cuser[k] = cuser[j] /\ LoggedIn(k) /\ LoggedIn(j)
        /\ reply.cmd = "ADMIN" /\ reply.err = NoErr
        /\ audit = LogAction(cuser[reply.conn], "kick", cuser[k])
        /\ k \in asyncDisc /\ Copies(wire, k, ExpelLine("kick")) = 1
        /\ j \notin asyncDisc /\ wire[j] = <<>>

\* the step is the handler of c acting on an ADMIN line it has just read
TakesAdminLine(c) ==
    /\ pc[c] = "idle"
    /\ \/ reply'.conn = c /\ reply'.cmd = "ADMIN"
       \/ pc'[c] \in {"ban_active", "unban_active"} \cup OperatorSubs

\* C15: an ADMIN subcommand sent by an authenticated connection whose account is
\* not flagged operator fails with 'permission denied: admin privileges
\* required' whatever its arguments, and changes no table, inserts no audit
\* row, disconnects nobody and writes nothing but that ERROR line
C15_NonOperatorDenied ==
    [][\A c \in Conns :
          (TakesAdminLine(c) /\ authenticated[c] /\ ~users[cuser[c]].admin)
              => /\ reply' = [conn |-> c, cmd |-> "ADMIN", err |-> ErrPermission]
                 /\ UNCHANGED <<users, sec, bans, asyncDisc>>
                 /\ audit' = <<>>
                 /\ \A k \in Conns \ {c} : wire'[k] = <<>>
                 /\ wire'[c] = <<ErrorLine(ErrPermission)>>]_vars

\* C15: alice, who is not an operator, has just been answered 'invalid duration
\* format' to an ADMIN ban
C15_OtherErrorToNonOperator ==
    \E c \in Conns :
        /\ reply = [conn |-> c, cmd |-> "ADMIN", err |-> ErrInvalidDuration]
        /\ authenticated[c] /\ ~users[cuser[c]].admin
        /\ wire[c] = <<ErrorLine(ErrInvalidDuration)>>

\* C16: while an account has an active ban, no LOGIN of it gets past the
\* credential check of auth.Login
C16_BannedLoginFails ==
    [][\A c \in Conns, u \in Names :
          (u \in bans /\ pc[c] = "idle")
              => ~(pc'[c] = "login_check" /\ lcl'[c].user = u)]_vars

\* C16: a LOGIN of alice has just succeeded while her ban row is active and
\* the BanUser that inserted it has not yet cleared her active flag
C16_LoggedInWhileBanned ==
    \E c, d \in Conns :
        /\ reply = [conn |-> c, cmd |-> "LOGIN", err |-> NoErr]
        /\ LoggedIn(c) /\ cuser[c] \in bans /\ users[cuser[c]].active
        /\ pc[d] = "ban_active" /\ lcl[d].user = cuser[c]

\* C18: a kick or a ban that names an account flagged operator fails with
\* 'cannot kick admin users' or 'cannot ban admin users': it inserts no ban row,
\* leaves the active flag of the target, logs nothing and disconnects no
\* connection of the target
C18_OperatorNotExpelled ==
    [][\A c \in Conns :
          TakesAdminLine(c)
              => /\ \A t \in Names :
                       users[t].admin
                           => /\ ~(pc'[c] = "ban_active" /\ lcl'[c].user = t)
                              /\ t \in bans' <=> t \in bans
                              /\ users'[t].active = users[t].active
                              /\ audit' \notin {LogAction(cuser[c], "kick", t),
                                                LogAction(cuser[c], "ban", t)}
                              /\ \A k \in Conns :
                                    cuser[k] = t => (k \in asyncDisc' <=> k \in asyncDisc)
                 /\ reply'.err \in {ErrCannotTargetAdmin("kick"), ErrCannotTargetAdmin("ban")}
                       => /\ UNCHANGED <<users, sec, bans, asyncDisc>>
                          /\ audit' = <<>>
                          /\ \A k \in Conns \ {c} : wire'[k] = <<>>]_vars

\* C18: the operator has just been refused the kick of an operator who is
\* logged in
C18_KickOfOperatorRefused ==
    \E c, k \in Conns :
        /\ reply = [conn |-> c, cmd |-> "ADMIN", err |-> ErrCannotTargetAdmin("kick")]
        /\ users[cuser[c]].admin
        /\ LoggedIn(k) /\ users[cuser[k]].admin /\ k \notin asyncDisc

\* C19: removeadmin of the actor's own account fails with 'cannot remove your
\* own admin privileges', changes no flag and logs nothing; a removeadmin of
\* another account that an operator sends passes to the UPDATE; and a step that
\* clears a flag or logs a removeadmin is that UPDATE: its target is not the
\* actor, the target's flag is cleared, one row is logged and the command
\* succeeds
C19_SelfDemotionRefused ==
    [][\A c \in Conns :
          /\ TakesAdminLine(c)
                => /\ reply'.err = ErrSelfDemote
                         => /\ users' = users /\ users'[cuser[c]].admin
                            /\ audit' = <<>>
                   /\ pc'[c] = "removeadmin"
                         => /\ lcl'[c].user # cuser[c] /\ users[cuser[c]].admin
                            /\ users' = users /\ audit' = <<>>
          /\ \A t \in Names :
                \/ audit' = LogAction(cuser[c], "removeadmin", t)
                \/ users[t].admin /\ ~users'[t].admin /\ pc[c] = "removeadmin" /\ pc'[c] = "idle"
                => /\ pc[c] = "removeadmin" /\ lcl[c].user = t
                   /\ t # cuser[c]
                   /\ ~users'[t].admin
                   /\ \A x \in Names \ {t} : users'[x] = users[x]
                   /\ audit' = LogAction(cuser[c], "removeadmin", t)
                   /\ reply' = [conn |-> c, cmd |-> "ADMIN", err |-> NoErr]
          /\ \A t \in Names :
                users[t].admin /\ ~users'[t].admin
                    => \E k \in Conns : pc[k] = "removeadmin" /\ lcl[k].user = t]_vars

\* C19: an operator other than eve has just been refused the removal of its
\* own flag
C19_SelfDemotionTried ==
    \E c \in Conns :
        /\ reply = [conn |-> c, cmd |-> "ADMIN", err |-> ErrSelfDemote]
        /\ cuser[c] = "alice" /\ users["alice"].admin /\ users["eve"].admin
        /\ audit = <<>>

\* C20: once Start has run, the workers alive are never fewer than the
\* configured number of workers: an idle timeout ends a worker only if that
\* many remain after its exit
C20_IdleExitsKeepMinimum ==
    started => Cardinality(LiveWorkers) >= workers

\* C20: two workers have left on idle timeout after the same reading of the
\* counter and fewer than the configured number of workers remain
C20_BelowMinimum ==
    /\ started
    /\ Cardinality(LiveWorkers) < workers
    /\ activeWorkers = Cardinality(LiveWorkers)
    /\ Cardinality({w \in Goroutines : wk[w] = "gone"}) = 2

\* occurrences of job j in the queue q
InQueue(q, j) == Cardinality({i \in 1..Len(q) : q[i] = j})

\* C21: a call of Submit that returns success has just placed its job at the
\* end of the queue, where it now is exactly once; one that returns the
\* queue-full error found the queue at capacity and leaves its job out of the
\* queue; and the queue grows by nothing but a successful Submit
C21_SubmitQueuesOnce ==
    [][/\ \A s \in Submitters :
             ret'.caller = s
                 => /\ ret'.err = NoErr
                          => /\ jobQueue' = Append(jobQueue, ret'.job)
                             /\ InQueue(jobQueue', ret'.job) = 1
                    /\ ret'.err = ErrQueueFull
                          => /\ Len(jobQueue) = queueSize
                             /\ jobQueue' = jobQueue
                             /\ InQueue(jobQueue', ret'.job) = 0
                    /\ ret'.err \in {NoErr, ErrQueueFull}
                    /\ ret'.job = caller[s].job /\ caller'[s].pc = "idle"
       /\ Len(jobQueue') > Len(jobQueue) => ret'.caller # "none" /\ ret'.err = NoErr
       /\ Len(jobQueue') <= queueSize]_vars

\* C21: Submit has just returned the queue-full error with the queue at
\* capacity and every one of the maxWorkers workers running a job
C21_QueueFullAllBusy ==
    /\ ret.caller # "none" /\ ret.err = ErrQueueFull
    /\ Len(jobQueue) = queueSize
    /\ Cardinality({w \in Goroutines : wk[w] = "job"}) = maxWorkers
    /\ InQueue(jobQueue, ret.job) = 0

\* C22: once Shutdown has been called every worker leaves its loop by
\* returning, an idle one at its next step and a busy one after its job, and
\* none ends otherwise; Shutdown returns 'gracefully' only when no worker is
\* left, and by its ten-second bound only while one is
C22_ShutdownEndsWorkers ==
    /\ [](\A w \in Goroutines : wk[w] # "panic")
    /\ [][/\ (sd # "graceful" /\ sd' = "graceful") => LiveWorkers = {}
          /\ (sd # "timeout" /\ sd' = "timeout") => LiveWorkers # {}
          /\ \A w \in Goroutines :
                (ctxDone /\ wk[w] = "job" /\ wk'[w] # "job") => wk'[w] = "select"]_vars

\* C22: Shutdown is waiting for the workers and an idle worker has received
\* the zero Job from the closed queue and called its nil Task
C22_WorkerPanicsAfterClose ==
    /\ sd = "waiting" /\ closed /\ jobQueue = <<>>
    /\ \E w \in Goroutines : wk[w] = "panic"
    /\ \A s \in Submitters : caller[s].pc = "idle"

\* the session ids held by the index userSessions
IndexedSids ==
    UNION {{userSessions[u][i] : i \in 1..Len(userSessions[u])} : u \in DOMAIN userSessions}

\* C23: GetSession(id) returns the session exactly when id is in the registry
\* and not past its expiry, 'session not found' when id is absent and 'session
\* expired' when id is present and past its expiry; a tick of the sweeper that
\* removes anything removes every expired session from the map and from the
\* index and keeps the others
C23_GetSessionAndSweep ==
    /\ [](\A sid \in Sids :
            /\ GetSession(sid).err = NoErr
                    <=> (sid \in DOMAIN sessions /\ ~sessions[sid].expired)
            /\ GetSession(sid).err = NoErr => GetSession(sid).session = sessions[sid]
            /\ sid \notin DOMAIN sessions => GetSession(sid).err = ErrSessionNotFound
            /\ (sid \in DOMAIN sessions /\ sessions[sid].expired)
                    => GetSession(sid).err = ErrSessionExpired)
    /\ [][(/\ DOMAIN sessions' # DOMAIN sessions
           /\ UNCHANGED connVars)
              => /\ Expired # {}
                 /\ DOMAIN sessions' = DOMAIN sessions \ Expired
                 /\ \A sid \in DOMAIN sessions' : sessions'[sid] = sessions[sid]
                 /\ \A sid \in Sids : sid \in IndexedSids' <=> sid \in IndexedSids \ Expired]_vars

\* C23: one session has been swept and its id is not found any more, while
\* another one, made later, is past its expiry and still awaits the next tick
C23_ExpiredAndSwept ==
    \E c \in Conns, sid \in Sids :
        /\ authenticated[c] /\ SessionID[c] # 0 /\ SessionID[c] # sid
        /\ GetSession(SessionID[c]).err = ErrSessionNotFound
        /\ GetSession(sid).err = ErrSessionExpired
        /\ sid \in IndexedSids

\* the error of a locked account: the lock that has just fired or an earlier one
AccountLocked(e) == IsCritical(e) \/ Contains(e, <<"account", "is", "locked">>)

Delivered(w, line) ==
    Cardinality({p \in Conns \X (1..4) : p[2] <= Len(w[p[1]]) /\ w[p[1]][p[2]] = line})

\* C26: a PRIVMSG of an authenticated connection to the account t: when the
\* index holds a connection authenticated as t, the command returns no error
\* and exactly one PRIVMSG line goes out, to a connection of t; when it holds
\* none, the sender is told that t is offline, no PRIVMSG line goes out and no
\* table changes
C26_DirectMessage ==
    [][\A c \in Conns, t \in Names :
          (handlePrivMsg(c, t) /\ authenticated[c] /\ users[t].registered)
              => IF IndexedAs(t) # {}
                 THEN /\ reply'.err = NoErr
                      /\ Delivered(wire', PrivMsgLine(cuser[c], t)) = 1
                      /\ \E k \in IndexedAs(t) : Copies(wire', k, PrivMsgLine(cuser[c], t)) = 1
                 ELSE /\ reply'.err = ErrOffline
                      /\ wire' = Send(NoLines, c, ErrorLine(ErrOffline))
                      /\ UNCHANGED storeVars]_vars

\* C26: a PRIVMSG to alice has just returned no error and has put no line on
\* any connection, alice's only indexed connection being closed
C26_AcceptedAndLost ==
    \E c \in Conns :
        /\ reply = [conn |-> c, cmd |-> "PRIVMSG", err |-> NoErr]
        /\ cuser[c] = "eve"
        /\ wire = NoLines
        /\ IndexedAs("alice") # {} /\ \A k \in IndexedAs("alice") : ~Writable(k)

\* C27: a REGISTER of a name that has an account fails and leaves the users
\* table as it was, at the UsernameExists query and at the INSERT alike; a
\* REGISTER succeeds only by adding the one row of a name that had none, a
\* REGISTER that loses the race at the INSERT finds the winner's row, and no
\* name ever has two rows, whatever the interleaving of the two connections.
C27_RegisterUnique ==
    /\ [](\A u \in Names : users[u].rows <= 1)
    /\ [][/\ \A c \in Peers, u \in Names, p \in Passwords :
                handleRegister(c, u, p) /\ users[u].registered =>
                    /\ reply'.cmd = "REGISTER" /\ reply'.err # NoErr
                    /\ users' = users
          /\ \A c \in Peers :
                RegisterCreate(c) /\ users[lcl[c].user].registered =>
                    /\ reply'.err = ErrCreateUser
                    /\ users' = users
                    /\ users[lcl[c].user].rows = 1
          /\ \A c \in Peers :
                reply'.conn = c /\ reply'.cmd = "REGISTER" /\ reply'.err = NoErr =>
                    /\ pc[c] = "register_create"
                    /\ users[lcl[c].user].rows = 0
                    /\ users'[lcl[c].user].rows = 1
                    /\ \A v \in Names \ {lcl[c].user} : users'[v] = users[v]
          /\ \A u \in Names : users'[u].rows >= users[u].rows]_vars

\* C27 witness: a REGISTER whose UsernameExists query found no row has failed at
\* the INSERT, because the other connection registered the same name in between
C27_RaceLost ==
    /\ reply.cmd = "REGISTER" /\ reply.err = ErrCreateUser
    /\ users["alice"].rows = 1

\* C28: with one salt, the digest of a password verifies against that password
\* and against no other; the row REGISTER writes is the digest of the password
\* it was given, a row's digest and salt never change, and LOGIN creates a
\* session only when the password it was given is the one that verifies.
C28_VerifyMatchesDigest ==
    /\ [](\A p \in Passwords, q \in Passwords, s \in Salts :
              VerifyPassword(Str(q), s, HashPassword(Str(p), s)) <=> q = p)
    /\ [][/\ \A c \in Peers :
                reply'.conn = c /\ reply'.cmd = "REGISTER" /\ reply'.err = NoErr =>
                    \A q \in Passwords :
                        VerifyPassword(Str(q), users'[lcl[c].user].salt,
                                       users'[lcl[c].user].hash) <=> q = lcl[c].pw
          /\ \A u \in Names : users[u].registered =>
                users'[u].hash = users[u].hash /\ users'[u].salt = users[u].salt
          /\ \A c \in Peers :
                LoginSession(c) /\ sessions' # sessions =>
                    \A q \in Passwords :
                        VerifyPassword(Str(q), users[lcl[c].user].salt,
                                       users[lcl[c].user].hash) <=> q = lcl[c].pw]_vars

\* C28 witness: alice was registered with the second password under the second
\* salt and a LOGIN of alice has completed
C28_LoggedInWithRegistered ==
    /\ reply.cmd = "LOGIN" /\ reply.err = NoErr
    /\ reply.conn \in Conns /\ cuser[reply.conn] = "alice"
    /\ users["alice"].hash = HashPassword(Str("p2"), <<"b">>)

\* the bytes at positions k and k + 1 of a stream are one whole line
WholeLineAt(q, k) ==
    /\ k + 1 <= Len(q)
    /\ q[k].part = "msg" /\ q[k + 1].part = "crlf" /\ q[k + 1].line = q[k].line

\* C29: what the peer has received is a sequence of whole lines, each at most
\* once, cut short only at its very end and only by a failed write; a line whose
\* Send had returned before the Send of another line was called precedes that
\* other line; and while no write has failed every Send that returned has
\* delivered its line.
C29_LinesWholeAndOrdered ==
    /\ \A k \in 1..Len(peer) :
          IF k % 2 = 1
          THEN WholeLineAt(peer, k) \/ (k = Len(peer) /\ peer[k].part = "msg" /\ writer.err)
          ELSE WholeLineAt(peer, k - 1)
    /\ \A k \in 1..Len(peer), m \in 1..Len(peer) :
          /\ k # m /\ peer[k].part = peer[m].part => peer[k].line # peer[m].line
          /\ k < m => peer[m].line \notin calls[peer[k].line]
    /\ ~writer.err =>
          \A i \in returned : \E k \in 1..Len(peer) : WholeLineAt(peer, k) /\ peer[k].line = i

\* C29 witness: two lines have arrived whole, the one whose Send was called
\* second first, while a third Send waits for the mutex another goroutine holds
C29_ContendedAndDelivered ==
    /\ Len(peer) >= 4 /\ WholeLineAt(peer, 1) /\ WholeLineAt(peer, 3)
    /\ peer[1].line = 2 /\ peer[3].line = 1
    /\ \E g \in Senders : snd[g].pc = "lock" /\ writerMu \notin {"free", g}

\* what a LOGIN whose address is known, or is the first, does from the check on:
\* the check of c (taken when ok holds of the row and the address) goes on
\* without writing, the first address is recorded with every other field of the
\* row kept, and the session and index steps write nothing to the security rows
\* and end in a successful LOGIN
TrackedLoginSteps(c, ok(_, _)) ==
    LET u == lcl[c].user
    IN  /\ LoginCheck(c) /\ enableTracking /\ ok(sec[u], addr[c]) =>
              /\ sec' = sec
              /\ pc'[c] = IF sec[u].lastKnownIP = NoIP THEN "login_first_ip"
                          ELSE "login_session"
        /\ LoginSetIP(c) /\ pc[c] = "login_first_ip" =>
              /\ sec' = [sec EXCEPT ![u].lastKnownIP = addr[c]]
              /\ pc'[c] = "login_session"
        /\ LoginSession(c) => sec' = sec /\ pc'[c] = "login_add"
        /\ LoginAdd(c) => sec' = sec /\ reply' = [conn |-> c, cmd |-> "LOGIN", err |-> NoErr]

\* the row has the address ip as last-known, or none
KnownOrFirst(row, ip) == row.lastKnownIP \in {ip, NoIP}

\* the row is not locked and has the address ip as last-known, or none
KnownOrFirstUnlocked(row, ip) == ~row.locked /\ KnownOrFirst(row, ip)

C31_RoomCreatedWithOwner ==
    /\ [](\A c \in Conns : pc[c] = "join_owner" => members[lcl[c].room][lcl[c].user] = "owner")
    /\ [][/\ \A r \in Rooms : r \notin chans /\ r \in chans' =>
                \E c \in Conns : lcl[c].room = r /\ members'[r][lcl[c].user] = "owner"
          /\ (reply'.cmd = "JOIN" /\ reply'.err # NoErr /\ authenticated[reply'.conn]) =>
                \A r \in chans' : \E u \in Names : members'[r][u] = "owner"]_vars

\* C31 witness: the room is in the store, its creator is still before the
\* AddMember of the owner row, and the other account has already joined it
C31_JoinedBeforeOwner ==
    \E c \in Conns, d \in Conns :
        /\ pc[c] = "join_owner" /\ lcl[c].room \in chans
        /\ members[lcl[c].room][lcl[c].user] = "none"
        /\ cuser[d] # lcl[c].user /\ lcl[c].room \in channels[d]
        /\ members[lcl[c].room][cuser[d]] = "member"

\* a JOIN has failed at the owner row and left the room behind, without an owner
C31_RoomLeftWithoutOwner ==
    /\ reply.cmd = "JOIN" /\ reply.err = ErrAddOwner
    /\ \E r \in chans : \A u \in Names : members[r][u] # "owner"

\* how many of the lines q are equal to line
CountIn(q, line) == Cardinality({i \in 1..Len(q) : q[i] = line})

\* C32: of a PART of room r by connection c, the step that removes the
\* membership writes the PART line once to every other live connection whose
\* joined set holds r and not to c, and the step that completes the PART writes
\* it once to c and to nobody else: every such connection gets the line exactly
\* once, the others no later than the removal.
C32_PartLineOnce ==
    [][\A c \in Conns :
          LET line == PartLine(cuser[c], lcl[c].room)
          IN  /\ PartRemove(c) =>
                    \A k \in Conns :
                        CountIn(wire'[k], line) =
                            IF k # c /\ lcl[c].room \in channels[k] /\ Writable(k)
                            THEN 1 ELSE 0
              /\ PartLocal(c) =>
                    \A k \in Conns :
                        CountIn(wire'[k], line) = IF k = c /\ Writable(k) THEN 1 ELSE 0]_vars

\* C32 witness: the broadcast of a PART has written the PART line to the actor,
\* whose own copy of the line is still to be sent
C32_ActorInBroadcast ==
    \E c \in Conns :
        /\ pc[c] = "part_local"
        /\ CountIn(wire[c], PartLine(cuser[c], lcl[c].room)) = 1
        /\ SessionID[c] \in DOMAIN clients /\ clients[SessionID[c]] = c
        /\ Cardinality({s \in DOMAIN clients : clients[s] = c}) = 1

\* C33: the number of live workers, and the counter of the pool, never exceed
\* maxWorkers, and a Submit adds a worker only while the counter is below
\* maxWorkers at the moment the worker is added.
C33_AtMostMaxWorkers ==
    /\ [](Cardinality(LiveWorkers) <= maxWorkers /\ activeWorkers <= maxWorkers)
    /\ [][\A s \in Submitters : SubmitSpawn(s) => activeWorkers < maxWorkers]_vars

\* C33 witness: two calls of Submit have each added a worker after reading the
\* same counter, and more than maxWorkers workers are alive
C33_OneWorkerTooMany ==
    /\ Cardinality(LiveWorkers) = maxWorkers + 1
    /\ activeWorkers = maxWorkers + 1
    /\ \A s \in Submitters : caller[s].pc = "send"

\* C34: every job whose Task a worker has called was handed to Submit, is no
\* longer in the queue nor in the hands of its Submit, and is never the zero
\* Job; and a worker never takes a job whose Task was called before. This holds
\* before, during and after Shutdown.
C34_ExecutesAcceptedOnce ==
    /\ [](\A j \in executed :
              /\ j \in 1..accepted
              /\ InQueue(jobQueue, j) = 0
              /\ \A s \in Submitters : caller[s].job # j)
    /\ [][\A w \in Goroutines : TakeJob(w) => Head(jobQueue) \notin executed]_vars

\* C34 witness: after Shutdown has closed the queue a worker has received the
\* zero Job from it and called its Task, while jobs accepted earlier were run
C34_ZeroJobExecuted ==
    /\ closed /\ NoJob \in executed
    /\ \E j \in executed : j # NoJob

\* C35: a call of Submit made once the context is cancelled returns the
\* shutting-down error and leaves the queue alone; a call that is already past
\* that test places its job only in a queue that is not closed; and no call of
\* Submit ever sends on the closed queue.
C35_NoSendOnClosedQueue ==
    /\ [](\A s \in Submitters : caller[s].pc # "panic")
    /\ [][\A s \in Submitters :
            /\ Submit(s) /\ ctxDone =>
                  /\ ret' = [caller |-> s, job |-> accepted + 1, err |-> ErrShuttingDown]
                  /\ jobQueue' = jobQueue
            /\ SubmitSend(s) => ~closed /\ ret'.err = NoErr
            /\ ~SubmitClosed(s)]_vars

\* C35 witness: a Submit that passed the context test before Shutdown began has
\* sent on the queue Shutdown has closed in the meantime
C35_SentOnClosed ==
    \E s \in Submitters :
        /\ caller[s].pc = "panic" /\ caller[s].job # NoJob
        /\ ctxDone /\ closed /\ sd = "waiting"

\* the ids listed under account u
ListedUnder(u) == {userSessions[u][i] : i \in 1..Len(userSessions[u])}

\* C36: an id is listed under an account exactly when the map holds it with
\* that account, no list holds an id twice or is empty, and the count of
\* active sessions is the number of ids listed; every step of the registry
\* keeps this.
C36_IndexesAgree ==
    /\ \A u \in Names, sid \in Sids :
          (u \in DOMAIN userSessions /\ sid \in ListedUnder(u))
              <=> (sid \in DOMAIN sessions /\ sessions[sid].user = u)
    /\ \A u \in DOMAIN userSessions :
          /\ userSessions[u] # <<>>
          /\ Cardinality(ListedUnder(u)) = Len(userSessions[u])
    /\ GetActiveSessionCount = Cardinality(IndexedSids)

\* C36 witness: an account is listed with two ids, and the registry holds a
\* session past its expiry next to one that is not
C36_TwoSessionsListed ==
    /\ DOMAIN userSessions = {"alice"}
    /\ Len(userSessions["alice"]) = 2
    /\ \E s \in DOMAIN sessions : sessions[s].expired
    /\ \E s \in DOMAIN sessions : ~sessions[s].expired

\* C38: a session that is past its expiry is, after any step of the registry,
\* still past its expiry or gone: GetSession does not return it again.
C38_ExpiredStaysExpired ==
    [][\A sid \in Sids :
          (sid \in DOMAIN sessions /\ GetSession(sid).err = ErrSessionExpired) =>
              (sid \in DOMAIN sessions' => sessions'[sid].expired)]_vars

\* C38 witness: GetSession returns again, for the connection that holds it, a
\* session made before another one that is past its expiry and not yet swept
C38_ValidNextToExpired ==
    \E c \in Conns, sid \in Sids :
        /\ authenticated[c] /\ SessionID[c] # 0 /\ SessionID[c] < sid
        /\ GetSession(SessionID[c]).err = NoErr
        /\ GetSession(sid).err = ErrSessionExpired

\* connections that are authenticated, not inside a LOGIN that has yet to
\* reach AddClient, and whose close path has not begun
LiveAuthenticated ==
    {c \in Conns : /\ cst[c] = "open" /\ authenticated[c] /\ once[c] = "new"
                   /\ pc[c] # "login_add"}

\* C37: every key of the connection index is the current session id of the
\* connection it maps to, that connection is authenticated and its close path
\* has not completed, no connection is under two keys, and every connection
\* that is authenticated, has completed its LOGIN and has not begun to close is
\* in the index.
C37_IndexMatchesConnections ==
    /\ \A s \in DOMAIN clients :
          /\ SessionID[clients[s]] = s
          /\ authenticated[clients[s]]
          /\ cst[clients[s]] = "open" /\ once[clients[s]] # "done"
    /\ \A s \in DOMAIN clients, t \in DOMAIN clients : clients[s] = clients[t] => s = t
    /\ \A c \in LiveAuthenticated : \E s \in DOMAIN clients : clients[s] = c

\* C37 witness: a connection whose second LOGIN has completed is in the index
\* under its old session id and under its new one
C37_UnderTwoKeys ==
    \E c \in Conns, s \in DOMAIN clients, t \in DOMAIN clients :
        /\ s # t /\ clients[s] = c /\ clients[t] = c
        /\ SessionID[c] = t /\ pc[c] = "idle" /\ cst[c] = "open" /\ once[c] = "new"

\* the account InitStore flags operator
SeededOperator(u) == u = "eve"

\* C39: an ADMIN command is authorized by the actor's flag as the table users
\* holds it when the command is taken, whatever the flag was when the
\* connection logged in: an account that was an operator and is one no more is
\* answered 'permission denied: admin privileges required' on its open
\* connection, and an account made operator since is not refused permission
C39_StoredFlagDecides ==
    [][\A c \in Conns :
          (TakesAdminLine(c) /\ authenticated[c])
              => /\ (SeededOperator(cuser[c]) /\ ~users[cuser[c]].admin)
                       => reply' = [conn |-> c, cmd |-> "ADMIN", err |-> ErrPermission]
                 /\ (~SeededOperator(cuser[c]) /\ users[cuser[c]].admin)
                       => reply'.err # ErrPermission]_vars

\* C39: eve, whose flag another operator has cleared, has just been answered
\* 'user not found' to an ADMIN command on the connection she is logged in on
C39_DemotedToldNotFound ==
    \E c \in Conns :
        /\ reply = [conn |-> c, cmd |-> "ADMIN", err |-> ErrUserNotFound]
        /\ LoggedIn(c) /\ cuser[c] = "eve" /\ ~users["eve"].admin
        /\ wire[c] = <<ErrorLine(ErrUserNotFound)>>

\* C40: the table users always holds an account flagged operator
C40_SomeOperatorRemains ==
    \E u \in Names : users[u].admin

\* C40: two operators have each passed RequireAdmin for a removeadmin of the
\* other, both UPDATEs have run and no account is flagged operator
C40_NoOperatorLeft ==
    /\ \A u \in Names : ~users[u].admin
    /\ reply.cmd = "ADMIN" /\ reply.err = NoErr
    /\ audit = LogAction(cuser[reply.conn], "removeadmin", "alice")

====
